---------------------------- MODULE Spec2Model ----------------------------
(***************************************************************************)
(* A model of the otr toolchain: the streaming compiler (state machine,    *)
(* expression parser, procedure builder) and the runtime (value model with *)
(* move / reference / clone semantics, scope stack, interpreter).          *)
(*                                                                         *)
(* Conventions.  Rust enums are records with a discriminating first field  *)
(* and a payload field; Result is [r |-> "Ok" | "Err" | "Panic", v |-> _]; *)
(* Option is the empty or the one-element sequence.  Vec indices are kept  *)
(* 0-based as in the source (instruction indices, jump targets, array      *)
(* indices); the TLA+ sequence holding the Vec is 1-based, so element i of *)
(* the source is s[i + 1].                                                 *)
(***************************************************************************)
EXTENDS Integers, Sequences, FiniteSets, TLC

VARIABLES
    state,                \* Compiler.state: the current CompilerState (Box<dyn CompilerState>)
    compiler_environment, \* Compiler.compiler_environment: decorators and file reader
    compile_error,        \* Option<CompilerError>: the error that ended the compilation
    runtime_object,       \* Option<RuntimeObject>: what Compiler::finalize returned
    pending,              \* tokens of the source text not yet handed to Compiler::read
    fragments_fed,        \* number of source fragments handed over so far
    last_inserted,        \* history: name and builder of the procedure inserted last
    body_braces,          \* history: brace depth inside the procedure body being read
    overflow_checks,      \* build profile: TRUE = overflow panics (dev), FALSE = wraps (release)
    call_environment,     \* the Environment of the running CompiledProcedure::call
    cells,                \* the cells behind Value::Struct and Value::StructRef
    last_executed,        \* history: the instruction executed last and how it ended
    before,               \* history: environment and heap before the instruction executed last
    steps,                \* number of instructions executed so far
    running,              \* Option: the procedure the running call is in, and its arguments
    parse_input,          \* the token sequence handed to ExpressionParser::parse
    parse_output,         \* Option: what ExpressionParser::parse returned for it
    files_read,           \* history: the locations handed to fs::read_to_string, in order
    program_counter       \* pc of CompiledProcedure::call running a compiled procedure

compile_vars == <<state, compiler_environment, compile_error, runtime_object, pending,
                  fragments_fed, last_inserted, body_braces>>
runtime_vars == <<call_environment, cells, last_executed, before, steps, running>>
parse_vars == <<parse_input, parse_output>>
load_vars == <<files_read>>
execute_vars == <<program_counter>>
other_vars == <<parse_vars, load_vars, execute_vars>>
vars == <<compile_vars, overflow_checks, runtime_vars, other_vars>>

-----------------------------------------------------------------------------
(* Bounds of the model *)

\* usize is modelled with UsizeBits bits (TLC's integers are 32-bit).
UsizeBits == 16
\* i64 is modelled with I64Bits bits.
I64Bits == 16
\* Number of source fragments fed to the compiler in one run.
MaxFragments == 6
\* A followed call takes at most MaxSteps turns of the instruction loop.
MaxSteps == 6
\* Arrays::new is called with sizes up to MaxArrayLen.
MaxArrayLen == 3

UsizeModulus == 2 ^ UsizeBits
UsizeMax == UsizeModulus - 1
I64Max == 2 ^ (I64Bits - 1) - 1
I64Min == 0 - 2 ^ (I64Bits - 1)

-----------------------------------------------------------------------------
(* Generic helpers *)

None == <<>>
Some(x) == <<x>>
IsSome(o) == Len(o) > 0
Unwrap(o) == o[1]

Ok(v) == [r |-> "Ok", v |-> v]
Err(msg) == [r |-> "Err", v |-> msg]
Panic(msg) == [r |-> "Panic", v |-> msg]
IsOk(res) == res.r = "Ok"

Front(s) == SubSeq(s, 1, Len(s) - 1)
Last(s) == s[Len(s)]

\* Vec::splice(from..=to, replacement) with 0-based inclusive bounds.
Splice(s, from, to, replacement) ==
    SubSeq(s, 1, from) \o replacement \o SubSeq(s, to + 2, Len(s))

-----------------------------------------------------------------------------
(* Tokens (lexer/token.rs) *)

\* Every token is a record of the same shape: the variant k, its payload s (the
\* keyword, operator or punctuation, the identifier, or a literal's kind) and, for
\* a literal, its text as a sequence of characters.
Keyword(s) == [k |-> "Keyword", s |-> s, text |-> <<>>]
Operator(s) == [k |-> "Operator", s |-> s, text |-> <<>>]
Punctuation(s) == [k |-> "Punctuation", s |-> s, text |-> <<>>]
Identifier(s) == [k |-> "Identifier", s |-> s, text |-> <<>>]
Literal(kind, text) == [k |-> "Literal", s |-> kind, text |-> text]

ParOpen == Punctuation("Parenthesis(Opening)")
ParClose == Punctuation("Parenthesis(Closing)")
SquareOpen == Punctuation("SquareBrackets(Opening)")
SquareClose == Punctuation("SquareBrackets(Closing)")
CurlyOpen == Punctuation("CurlyBraces(Opening)")
CurlyClose == Punctuation("CurlyBraces(Closing)")
Comma == Punctuation("Comma")
Dot == Punctuation("Dot")
Colon == Punctuation("Colon")
DoubleColon == Punctuation("DoubleColon")
Semicolon == Punctuation("Semicolon")
At == Punctuation("At")

IsBracket(token) ==
    /\ token.k = "Punctuation"
    /\ token.s \in {"Parenthesis(Opening)", "Parenthesis(Closing)",
                    "SquareBrackets(Opening)", "SquareBrackets(Closing)",
                    "CurlyBraces(Opening)", "CurlyBraces(Closing)"}
IsOpening(token) ==
    token.s \in {"Parenthesis(Opening)", "SquareBrackets(Opening)", "CurlyBraces(Opening)"}
BracketKind(token) ==
    CASE token.s \in {"Parenthesis(Opening)", "Parenthesis(Closing)"} -> "Parenthesis"
      [] token.s \in {"SquareBrackets(Opening)", "SquareBrackets(Closing)"} -> "SquareBrackets"
      [] OTHER -> "CurlyBraces"

-----------------------------------------------------------------------------
(* Values (runtime.rs) *)

\* Every value is a record of the same shape: the variant tag, and the payload in
\* the field of its type (i: an integer, b: a boolean, s: characters, e: elements).
BlankValue == [tag |-> "Null", i |-> 0, d |-> 1, b |-> FALSE, s |-> <<>>, e |-> <<>>]
Null == BlankValue
Integer(n) == [BlankValue EXCEPT !.tag = "Integer", !.i = n]
\* A Float is kept as the exact decimal fraction i / d.
Float(num, den) == [BlankValue EXCEPT !.tag = "Float", !.i = num, !.d = den]
String(s) == [BlankValue EXCEPT !.tag = "String", !.s = s]
Char(c) == [BlankValue EXCEPT !.tag = "Char", !.s = <<c>>]
Bool(b) == [BlankValue EXCEPT !.tag = "Bool", !.b = b]
Array(elems) == [BlankValue EXCEPT !.tag = "Array", !.e = elems]
\* Struct(c) owns heap cell c (the one strong Rc); StructRef(c) observes it (Weak).
Struct(c) == [BlankValue EXCEPT !.tag = "Struct", !.i = c]
StructRef(c) == [BlankValue EXCEPT !.tag = "StructRef", !.i = c]

ModuleAddress(module_id, identifier) == [module_id |-> module_id, identifier |-> identifier]

Digits == <<"0", "1", "2", "3", "4", "5", "6", "7", "8", "9">>
IsDigit(c) == \E d \in 1..10 : Digits[d] = c
DigitValue(c) == (CHOOSE d \in 1..10 : Digits[d] = c) - 1

\* str::parse::<i64>: an optional sign, then at least one digit, digits only, in range.
RECURSIVE ParseDigits(_, _)
ParseDigits(text, acc) ==
    IF text = <<>> THEN Some(acc)
    ELSE IF ~IsDigit(Head(text)) THEN None
    ELSE IF acc * 10 + DigitValue(Head(text)) > I64Max + 1 THEN None
    ELSE ParseDigits(Tail(text), acc * 10 + DigitValue(Head(text)))

ParseI64(text) ==
    IF text = <<>> THEN None
    ELSE LET signed == Head(text) \in {"-", "+"}
             digits == IF signed THEN Tail(text) ELSE text
             magnitude == IF digits = <<>> THEN None ELSE ParseDigits(digits, 0)
         IN  IF ~IsSome(magnitude) THEN None
             ELSE IF Head(text) = "-" THEN Some(0 - Unwrap(magnitude))
             ELSE IF Unwrap(magnitude) > I64Max THEN None
             ELSE magnitude

\* f64 is modelled with F64Digits decimal digits: a finite Float is the exact
\* fraction i / d with d a power of ten and both below 10^F64Digits; what is
\* larger is infinite, what is finer is cut off.  d = 0 stands for the values
\* that are no fraction: i = 1 and i = -1 for the infinities, i = 0 for NaN.
F64Digits == 6
F64Limit == 10 ^ F64Digits
Infinity(negative) == Float(IF negative THEN 0 - 1 ELSE 1, 0)
NaN == Float(0, 0)

LowerCase(c) ==
    CASE c = "I" -> "i" [] c = "N" -> "n" [] c = "F" -> "f" [] c = "A" -> "a"
      [] c = "T" -> "t" [] c = "Y" -> "y" [] OTHER -> c
Lowered(text) == [n \in 1..Len(text) |-> LowerCase(text[n])]

\* The digits of a number before its exponent: digits, at most one '.',
\* digits, and at least one digit in all.  `digits` counts the digits read.
RECURSIVE ParseDecimalDigits(_, _, _, _, _)
ParseDecimalDigits(text, num, den, seen_dot, digits) ==
    IF text = <<>>
    THEN IF digits = 0 THEN None ELSE Some([num |-> num, den |-> den])
    ELSE IF Head(text) = "." THEN
        IF seen_dot THEN None ELSE ParseDecimalDigits(Tail(text), num, den, TRUE, digits)
    ELSE IF ~IsDigit(Head(text)) THEN None
    ELSE IF seen_dot THEN
        IF num >= F64Limit \div 10 \/ den >= F64Limit \div 10
        THEN ParseDecimalDigits(Tail(text), num, den, TRUE, digits + 1)
        ELSE ParseDecimalDigits(Tail(text), num * 10 + DigitValue(Head(text)), den * 10,
                                TRUE, digits + 1)
    ELSE IF num >= F64Limit \div 10
    THEN ParseDecimalDigits(Tail(text), F64Limit, den, FALSE, digits + 1)
    ELSE ParseDecimalDigits(Tail(text), num * 10 + DigitValue(Head(text)), den, FALSE,
                            digits + 1)

\* The digits of an exponent; an exponent beyond every finite f64 is kept as
\* 3 * F64Digits.
RECURSIVE ParseExponentDigits(_, _)
ParseExponentDigits(text, acc) ==
    IF text = <<>> THEN Some(acc)
    ELSE IF ~IsDigit(Head(text)) THEN None
    ELSE IF acc * 10 + DigitValue(Head(text)) > 3 * F64Digits
    THEN ParseExponentDigits(Tail(text), 3 * F64Digits)
    ELSE ParseExponentDigits(Tail(text), acc * 10 + DigitValue(Head(text)))
ParseExponent(text) ==
    IF text = <<>> THEN None
    ELSE LET signed == Head(text) \in {"-", "+"}
             digits == IF signed THEN Tail(text) ELSE text
             magnitude == IF digits = <<>> THEN None ELSE ParseExponentDigits(digits, 0)
         IN  IF ~IsSome(magnitude) THEN None
             ELSE IF Head(text) = "-" THEN Some(0 - Unwrap(magnitude))
             ELSE magnitude

\* num / den times ten to the exponent, as the nearest value the modelled
\* f64 holds.
RECURSIVE ScaleDecimal(_, _, _, _)
ScaleDecimal(num, den, exponent, negative) ==
    IF num = 0 THEN Float(0, 1)
    ELSE IF num >= F64Limit THEN Infinity(negative)
    ELSE IF exponent > 0 THEN
        IF den > 1 THEN ScaleDecimal(num, den \div 10, exponent - 1, negative)
        ELSE IF num >= F64Limit \div 10 THEN Infinity(negative)
        ELSE ScaleDecimal(num * 10, den, exponent - 1, negative)
    ELSE IF exponent < 0 THEN
        IF den >= F64Limit \div 10
        THEN ScaleDecimal(num \div 10, den, exponent + 1, negative)
        ELSE ScaleDecimal(num, den * 10, exponent + 1, negative)
    ELSE Float(IF negative THEN 0 - num ELSE num, den)

\* str::parse::<f64>: an optional sign, then inf, infinity or nan in any case,
\* or a number: digits with at most one '.' and at least one digit, then
\* optionally e or E, an optional sign and at least one digit.
ParseF64(text) ==
    IF text = <<>> THEN None
    ELSE LET negative == Head(text) = "-"
             body == IF Head(text) \in {"-", "+"} THEN Tail(text) ELSE text
             marks == {n \in 1..Len(body) : body[n] \in {"e", "E"}}
             mark == IF marks = {} THEN 0 ELSE CHOOSE n \in marks : \A m \in marks : n <= m
             mantissa ==
                 ParseDecimalDigits(IF mark = 0 THEN body ELSE SubSeq(body, 1, mark - 1),
                                    0, 1, FALSE, 0)
             exponent ==
                 IF mark = 0 THEN Some(0) ELSE ParseExponent(SubSeq(body, mark + 1, Len(body)))
         IN  IF IsSome(mantissa) /\ IsSome(exponent)
             THEN Some(ScaleDecimal(Unwrap(mantissa).num, Unwrap(mantissa).den,
                                    Unwrap(exponent), negative))
             ELSE IF Lowered(body) \in {<<"i", "n", "f">>,
                                        <<"i", "n", "f", "i", "n", "i", "t", "y">>}
             THEN Some(Infinity(negative))
             ELSE IF Lowered(body) = <<"n", "a", "n">> THEN Some(NaN)
             ELSE None

\* impl TryFrom<LiteralToken> for Value
ValueTryFromLiteral(literal) ==
    CASE literal.s = "Null" -> Ok(Null)
      [] literal.s = "Integer" ->
            LET n == ParseI64(literal.text)
            IN  IF IsSome(n) THEN Ok(Integer(Unwrap(n)))
                ELSE Err("Could not parse as a whole number!")
      [] literal.s = "Decimal" ->
            LET f == ParseF64(literal.text)
            IN  IF IsSome(f) THEN Ok(Unwrap(f))
                ELSE Err("Could not parse as a decimal number!")
      [] literal.s = "Boolean" ->
            IF literal.text = <<"t", "r", "u", "e">> THEN Ok(Bool(TRUE))
            ELSE IF literal.text = <<"f", "a", "l", "s", "e">> THEN Ok(Bool(FALSE))
            ELSE Err("Could not parse as a boolean!")
      [] literal.s = "Char" ->
            IF literal.text = <<>> THEN Err("Could not parse as a char!")
            ELSE Ok(Char(Head(literal.text)))
      [] OTHER -> Ok(String(literal.text))

-----------------------------------------------------------------------------
(* The lexer: FragmentStream::from_str and Tokenizer (lexer.rs,            *)
(* lexer/rules.rs)                                                         *)

\* A source text and a fragment are strings.  The characters of the model
\* are the ASCII letters, digits, punctuation (the grave accent, which a
\* string of this module cannot hold, left out) and whitespace.
CharAt(s, n) == SubSeq(s, n, n)
CharsOf(s) == [n \in 1..Len(s) |-> CharAt(s, n)]

AsciiLetters ==
    {"a", "b", "c", "d", "e", "f", "g", "h", "i", "j", "k", "l", "m", "n", "o", "p", "q",
     "r", "s", "t", "u", "v", "w", "x", "y", "z", "A", "B", "C", "D", "E", "F", "G", "H",
     "I", "J", "K", "L", "M", "N", "O", "P", "Q", "R", "S", "T", "U", "V", "W", "X", "Y",
     "Z"}
AsciiPunctuation ==
    {"!", "\"", "#", "$", "%", "&", "'", "(", ")", "*", "+", ",", "-", ".", "/", ":", ";",
     "<", "=", ">", "?", "@", "[", "\\", "]", "^", "_", "{", "|", "}", "~"}
AsciiWhitespace == {" ", "\t", "\n", "\r", "\f"}

\* impl From<char> for CharKind; a character of no kind panics.
CharKind(c) ==
    IF c \in AsciiLetters THEN "Alphabetic"
    ELSE IF IsDigit(c) THEN "Numeric"
    ELSE IF c \in AsciiPunctuation THEN "Punctuation"
    ELSE "Unsupported"

\* The loop over a string literal, from the character after the opening
\* quote: the fragment with its closing quote and the position after it.
\* Running off the end of the text is an index out of bounds.
RECURSIVE StringLiteralLoop(_, _, _)
StringLiteralLoop(s, n, current) ==
    IF n > Len(s) THEN Panic("index out of bounds")
    ELSE IF CharAt(s, n) = "\"" THEN Ok([current |-> current \o "\"", next |-> n + 1])
    ELSE IF CharAt(s, n) = "\\" THEN
        IF n + 1 > Len(s) THEN Panic("index out of bounds")
        ELSE CASE CharAt(s, n + 1) = "n" -> StringLiteralLoop(s, n + 2, current \o "\n")
               [] CharAt(s, n + 1) = "t" -> StringLiteralLoop(s, n + 2, current \o "\t")
               [] CharAt(s, n + 1) = "\"" -> StringLiteralLoop(s, n + 2, current \o "\"")
               [] CharAt(s, n + 1) = "\\" -> StringLiteralLoop(s, n + 2, current \o "\\")
               [] OTHER -> Err("InvalidControlCharacter")
    ELSE StringLiteralLoop(s, n + 1, current \o CharAt(s, n))

\* The loop over a comment: the position of the line feed that ends it.  The
\* character is read before the bound is tested, so a comment that the text
\* ends in is an index out of bounds.
RECURSIVE CommentLoop(_, _)
CommentLoop(s, n) ==
    IF n > Len(s) THEN Panic("index out of bounds")
    ELSE IF CharAt(s, n) = "\n" THEN Ok(n)
    ELSE CommentLoop(s, n + 1)

\* FragmentStream::from_str, from the n-th character on.
RECURSIVE FromStrLoop(_, _, _, _, _)
FromStrLoop(s, n, current, current_kind, stream) ==
    LET flushed == IF current = "" THEN stream ELSE Append(stream, current)
        c == CharAt(s, n)
        Quoted(literal) ==
            IF literal.r # "Ok" THEN literal
            ELSE FromStrLoop(s, literal.v.next, "", current_kind,
                             Append(flushed, literal.v.current))
        Commented(end) ==
            IF end.r # "Ok" THEN end
            ELSE FromStrLoop(s, end.v, "", current_kind, flushed)
        Splits(kind) ==
            /\ current # ""
            /\ \/ <<current_kind, kind>> \in {<<"Alphabetic", "Punctuation">>,
                                            <<"Punctuation", "Alphabetic">>,
                                            <<"Numeric", "Alphabetic">>}
               \/ <<current_kind, kind>> = <<"Numeric", "Punctuation">> /\ c # "."
        Pushed(kind) ==
            IF kind = "Unsupported" THEN Panic("Unsupported char kind")
            ELSE IF Splits(kind)
            THEN FromStrLoop(s, n + 1, c, kind, Append(stream, current))
            ELSE FromStrLoop(s, n + 1, current \o c, kind, stream)
    IN  IF n > Len(s) THEN Ok(flushed)
        ELSE CASE c = "'" ->
                    IF n + 1 > Len(s) THEN Panic("index out of bounds")
                    ELSE FromStrLoop(s, n + 3, "'" \o CharAt(s, n + 1) \o "'", current_kind,
                                     flushed)
               [] c = "\"" -> Quoted(StringLiteralLoop(s, n + 1, "\""))
               [] c \in AsciiWhitespace -> FromStrLoop(s, n + 1, "", current_kind, flushed)
               [] c = "#" -> Commented(CommentLoop(s, n + 1))
               [] c = ";" ->
                    FromStrLoop(s, n + 1, "", current_kind, stream \o <<current, ";">>)
               [] OTHER -> Pushed(CharKind(c))
FragmentStreamFromStr(s) == FromStrLoop(s, 1, "", "Alphabetic", <<>>)

\* The rules of Tokenizer::default, in their order.
KeywordRule(keyword, emits) == [rule |-> "KeywordRule", text |-> keyword, emits |-> emits]
PatternRule(pattern, emits) == [rule |-> "PatternRule", text |-> pattern, emits |-> emits]
LiteralRule(rule) == [rule |-> rule, text |-> "", emits |-> Identifier("")]
TokenizerDefault ==
    <<KeywordRule("break", Keyword("Break")),
      KeywordRule("const", Keyword("Const")),
      KeywordRule("continue", Keyword("Continue")),
      KeywordRule("for", Keyword("For")),
      KeywordRule("let", Keyword("Let")),
      KeywordRule("proc", Keyword("Proc")),
      KeywordRule("return", Keyword("Return")),
      KeywordRule("struct", Keyword("Struct")),
      KeywordRule("while", Keyword("While")),
      KeywordRule("module", Keyword("Module")),
      KeywordRule("export", Keyword("Export")),
      PatternRule("&&", Operator("And")),
      PatternRule("||", Operator("Or")),
      PatternRule("==", Operator("Equality")),
      PatternRule("!=", Operator("Inequality")),
      PatternRule("::", DoubleColon),
      PatternRule("(", ParOpen),
      PatternRule(")", ParClose),
      PatternRule("[", SquareOpen),
      PatternRule("]", SquareClose),
      PatternRule("{", CurlyOpen),
      PatternRule("}", CurlyClose),
      PatternRule("@", At),
      PatternRule("!", Operator("Not")),
      PatternRule("+", Operator("Plus")),
      PatternRule("-", Operator("Minus")),
      PatternRule("*", Operator("Multiply")),
      PatternRule("/", Operator("Divide")),
      PatternRule("%", Operator("Modulo")),
      PatternRule("=", Operator("Assignment")),
      PatternRule("^", Operator("Power")),
      PatternRule(",", Comma),
      PatternRule(".", Dot),
      PatternRule(":", Colon),
      PatternRule(";", Semicolon),
      LiteralRule("NumberLiteralRule"),
      LiteralRule("StringLiteralRule"),
      LiteralRule("CharLiteralRule"),
      LiteralRule("BooleanLiteralRule"),
      LiteralRule("IdentifierRule")>>

\* TokenizerRule::try_apply of each rule: the token emitted, if any, and what
\* is left of the fragment.  The string rule slices a lone quote from 1 to 0.
RuleApplied(token, rest) == [r |-> "Ok", token |-> token, rest |-> rest]
TryApply(rule, fragment) ==
    LET length == Len(fragment)
        first == CharAt(fragment, 1)
    IN  CASE rule.rule = "KeywordRule" ->
                IF fragment = rule.text THEN RuleApplied(Some(rule.emits), "")
                ELSE RuleApplied(None, fragment)
          [] rule.rule = "PatternRule" ->
                IF length >= Len(rule.text) /\ SubSeq(fragment, 1, Len(rule.text)) = rule.text
                THEN RuleApplied(Some(rule.emits), SubSeq(fragment, Len(rule.text) + 1, length))
                ELSE RuleApplied(None, fragment)
          [] rule.rule = "NumberLiteralRule" ->
                IF length > 0 /\ (IsDigit(first) \/ first = "-")
                THEN IF \E n \in 1..length : CharAt(fragment, n) = "."
                     THEN RuleApplied(Some(Literal("Decimal", CharsOf(fragment))), "")
                     ELSE RuleApplied(Some(Literal("Integer", CharsOf(fragment))), "")
                ELSE RuleApplied(None, fragment)
          [] rule.rule = "StringLiteralRule" ->
                IF length > 0 /\ first = "\"" /\ CharAt(fragment, length) = "\""
                THEN IF length = 1
                     THEN [r |-> "Panic", token |-> None, rest |-> fragment]
                     ELSE RuleApplied(Some(Literal("String",
                                               CharsOf(SubSeq(fragment, 2, length - 1)))), "")
                ELSE RuleApplied(None, fragment)
          [] rule.rule = "CharLiteralRule" ->
                IF length = 3 /\ first = "'" /\ CharAt(fragment, 3) = "'"
                THEN RuleApplied(Some(Literal("Char", <<CharAt(fragment, 2)>>)), "")
                ELSE RuleApplied(None, fragment)
          [] rule.rule = "BooleanLiteralRule" ->
                IF fragment \in {"true", "false"}
                THEN RuleApplied(Some(Literal("Boolean", CharsOf(fragment))), "")
                ELSE RuleApplied(None, fragment)
          [] OTHER -> RuleApplied(Some(Identifier(fragment)), "")

\* The scan of one fragment in Tokenizer::tokenize: the rules are tried in
\* order, and after the first that emits a token the scan starts over with
\* what is left of the fragment.
RECURSIVE ScanFragment(_, _, _)
ScanFragment(fragment, n, stream) ==
    IF fragment = "" THEN Ok(stream)
    ELSE LET Tried(applied) ==
                 IF applied.r = "Panic"
                 THEN Panic("slice index starts at 1 but ends at 0")
                 ELSE IF IsSome(applied.token)
                 THEN ScanFragment(applied.rest, 1, Append(stream, Unwrap(applied.token)))
                 ELSE ScanFragment(fragment, n + 1, stream)
         IN  Tried(TryApply(TokenizerDefault[n], fragment))

\* Tokenizer::tokenize with the rules of Tokenizer::default.
RECURSIVE TokenizerTokenize(_, _)
TokenizerTokenize(fragments, stream) ==
    IF fragments = <<>> THEN Ok(stream)
    ELSE LET Scanned(scanned) ==
                 IF scanned.r # "Ok" THEN scanned
                 ELSE TokenizerTokenize(Tail(fragments), scanned.v)
         IN  Scanned(ScanFragment(Head(fragments), 1, stream))

\* The tokens Compiler::compile reads for the text of a file: from_str, then
\* tokenize.  A text that does not fragment ends the compilation.
TokensOf(text) ==
    LET Fragmented(fragments) ==
            IF fragments.r = "Err" THEN Err("Fragmentation error: " \o fragments.v)
            ELSE IF fragments.r = "Panic" THEN fragments
            ELSE TokenizerTokenize(fragments.v, <<>>)
    IN  Fragmented(FragmentStreamFromStr(text))

\* The tokens of a text that fragments and tokenizes.
Tokens(text) == TokensOf(text).v

\* Tokenizer::default has no rule for the keywords if, else, import and from:
\* in a source text they fall to IdentifierRule.  The states of the compiler
\* that read these keywords are reached when a caller of Compiler::read
\* makes the tokens itself.
If == <<Keyword("If")>>
Else == <<Keyword("Else")>>
Import == <<Keyword("Import")>>
From == <<Keyword("From")>>

-----------------------------------------------------------------------------
(* Expression trees (runtime/expressions.rs, expressions/arithmetic.rs,    *)
(* expressions/boolean.rs) and scope addresses (runtime/scope.rs)          *)

AddrIdentifier(ident) == [ad |-> "Identifier", v |-> ident]
AddrIndex(i) == [ad |-> "Index", v |-> i]
AddrDynamicIndex(expression) == [ad |-> "DynamicIndex", v |-> expression]

ValueExpression(value) == [x |-> "Value", v |-> value]
VariableExpression(address) == [x |-> "Variable", v |-> address]
ReferenceExpression(address) == [x |-> "Reference", v |-> address]
CloneExpression(address) == [x |-> "Clone", v |-> address]
NotExpression(e) == [x |-> "Not", v |-> e]
BinaryExpression(kind, lhs, rhs) == [x |-> kind, v |-> <<lhs, rhs>>]
ProcedureCallExpression(procedure_id, arguments) ==
    [x |-> "ProcedureCall", v |-> [procedure_id |-> procedure_id, arguments |-> arguments]]
StructConstructionExpression(struct_id, field_overrides) ==
    [x |-> "StructConstruction",
     v |-> [struct_id |-> struct_id, field_overrides |-> field_overrides]]

-----------------------------------------------------------------------------
(* Expression parser (compiler/expression_parser.rs) *)

RawSubexpression(tokens) == [a |-> "Subexpression", v |-> tokens]
AtomOperator(operator) == [a |-> "Operator", v |-> operator]
AtomSubexpression(expression) == [a |-> "Subexpression", v |-> expression]

\* The bracket bookkeeping that take_until_closing, split_by_commas and split
\* repeat: push an opening bracket; on a closing one pop and compare the kinds.
BracketStep(stack, token) ==
    IF ~IsBracket(token) THEN Ok(stack)
    ELSE IF IsOpening(token) THEN Ok(Append(stack, token))
    ELSE IF stack = <<>> THEN Err("Invalid parenthesis structure!")
    ELSE IF BracketKind(Last(stack)) # BracketKind(token)
         THEN Err("Invalid parenthesis structure!")
    ELSE Ok(Front(stack))

OpeningOf(parenthesis) ==
    CASE BracketKind(parenthesis) = "Parenthesis" -> ParOpen
      [] BracketKind(parenthesis) = "SquareBrackets" -> SquareOpen
      [] OTHER -> CurlyOpen

RECURSIVE TakeUntilClosingLoop(_, _, _, _)
TakeUntilClosingLoop(tokens, parenthesis, stack, slice) ==
    IF tokens = <<>> THEN
        IF stack # <<>> THEN Err("Invalid parenthesis structure!")
        ELSE Ok([slice |-> slice, rest |-> <<>>])
    ELSE LET token == Head(tokens)
         IN  IF Len(stack) = 1 /\ token = parenthesis
             THEN Ok([slice |-> slice, rest |-> Tail(tokens)])
             ELSE LET stepped == BracketStep(stack, token)
                  IN  IF ~IsOk(stepped) THEN stepped
                      ELSE TakeUntilClosingLoop(Tail(tokens), parenthesis, stepped.v,
                                                Append(slice, token))

\* ExpressionParser::take_until_closing: the tokens up to the closing bracket that
\* matches an already consumed opening one, and the tokens left in the iterator.
TakeUntilClosing(tokens, parenthesis) ==
    TakeUntilClosingLoop(tokens, parenthesis, <<OpeningOf(parenthesis)>>, <<>>)

RECURSIVE SplitByCommasLoop(_, _, _, _)
SplitByCommasLoop(tokens, stack, slices, current) ==
    IF tokens = <<>> THEN
        Ok(IF current # <<>> THEN Append(slices, current) ELSE slices)
    ELSE LET next == Head(tokens)
             stepped == BracketStep(stack, next)
         IN  IF ~IsOk(stepped) THEN stepped
             ELSE IF next = Comma /\ stepped.v = <<>>
                  THEN SplitByCommasLoop(Tail(tokens), stepped.v, Append(slices, current), <<>>)
                  ELSE SplitByCommasLoop(Tail(tokens), stepped.v, slices, Append(current, next))

\* ExpressionParser::split_by_commas
SplitByCommas(tokens) == SplitByCommasLoop(tokens, <<>>, <<>>, <<>>)

RECURSIVE SplitLoop(_, _, _, _)
SplitLoop(tokens, stack, atoms, current_subexpression) ==
    IF tokens = <<>> THEN Ok(Append(atoms, RawSubexpression(current_subexpression)))
    ELSE LET next == Head(tokens)
         IN  IF next.k = "Punctuation" THEN
                 LET stepped == BracketStep(stack, next)
                 IN  IF ~IsOk(stepped) THEN stepped
                     ELSE SplitLoop(Tail(tokens), stepped.v, atoms,
                                    Append(current_subexpression, next))
             ELSE IF next.k = "Operator" /\ stack = <<>> THEN
                 SplitLoop(Tail(tokens), stack,
                           Append(IF current_subexpression # <<>>
                                  THEN Append(atoms, RawSubexpression(current_subexpression))
                                  ELSE atoms,
                                  AtomOperator(next.s)),
                           <<>>)
             ELSE SplitLoop(Tail(tokens), stack, atoms, Append(current_subexpression, next))

\* ExpressionParser::split: raw atoms, cut at the operators outside every bracket.
Split(tokens) == SplitLoop(tokens, <<>>, <<>>, <<>>)

\* ExpressionParser::get_precedence
GetPrecedence(operator) ==
    CASE operator = "Assignment" -> 0
      [] operator = "Plus" -> 1
      [] operator = "Minus" -> 1
      [] operator = "Multiply" -> 2
      [] operator = "Divide" -> 2
      [] operator = "Modulo" -> 3
      [] operator = "Power" -> 4
      [] operator = "Not" -> 10
      [] operator = "And" -> 2
      [] operator = "Or" -> 1
      [] operator = "Equality" -> 0
      [] operator = "Inequality" -> 0
      [] operator = "Greater" -> 0
      [] operator = "Less" -> 0
      [] operator = "GreaterEquals" -> 0
      [] operator = "LessEquals" -> 0

\* A resolution in which every comparison is built as a plain
\* GreaterThanExpression or EqualityExpression of its operands in their order.
ResolveBinaryOperatorPlain(operator, lhs, rhs) ==
    CASE operator = "Assignment" -> Err("Assignment operator disallowed in expressions!")
      [] operator = "Plus" -> Ok(BinaryExpression("Add", lhs, rhs))
      [] operator = "Minus" -> Ok(BinaryExpression("Subtract", lhs, rhs))
      [] operator = "Multiply" -> Ok(BinaryExpression("Multiply", lhs, rhs))
      [] operator = "Divide" -> Ok(BinaryExpression("Divide", lhs, rhs))
      [] operator = "Modulo" -> Ok(BinaryExpression("Modulo", lhs, rhs))
      [] operator = "Power" -> Ok(BinaryExpression("Power", lhs, rhs))
      [] operator = "And" -> Ok(BinaryExpression("And", lhs, rhs))
      [] operator = "Or" -> Ok(BinaryExpression("Or", lhs, rhs))
      [] operator \in {"Equality", "Inequality"} -> Ok(BinaryExpression("Equality", lhs, rhs))
      [] operator = "Not" -> Err("Not operator is not a binary operator!")
      [] operator \in {"Greater", "Less", "GreaterEquals", "LessEquals"} ->
            Ok(BinaryExpression("GreaterThan", lhs, rhs))

\* ExpressionParser::resolve_binary_operator
ResolveBinaryOperator(operator, lhs, rhs) ==
    CASE operator = "Assignment" -> Err("Assignment operator disallowed in expressions!")
      [] operator = "Plus" -> Ok(BinaryExpression("Add", lhs, rhs))
      [] operator = "Minus" -> Ok(BinaryExpression("Subtract", lhs, rhs))
      [] operator = "Multiply" -> Ok(BinaryExpression("Multiply", lhs, rhs))
      [] operator = "Divide" -> Ok(BinaryExpression("Divide", lhs, rhs))
      [] operator = "Modulo" -> Ok(BinaryExpression("Modulo", lhs, rhs))
      [] operator = "Power" -> Ok(BinaryExpression("Power", lhs, rhs))
      [] operator = "And" -> Ok(BinaryExpression("And", lhs, rhs))
      [] operator = "Or" -> Ok(BinaryExpression("Or", lhs, rhs))
      [] operator = "Equality" -> Ok(BinaryExpression("Equality", lhs, rhs))
      [] operator = "Inequality" -> Ok(NotExpression(BinaryExpression("Equality", lhs, rhs)))
      [] operator = "Not" -> Err("Not operator is not a binary operator!")
      [] operator = "Greater" -> Ok(BinaryExpression("GreaterThan", lhs, rhs))
      [] operator = "Less" -> Ok(BinaryExpression("GreaterThan", rhs, lhs))
      [] operator = "GreaterEquals" ->
            Ok(NotExpression(BinaryExpression("GreaterThan", rhs, lhs)))
      [] operator = "LessEquals" ->
            Ok(NotExpression(BinaryExpression("GreaterThan", lhs, rhs)))

\* A sort that leaves the operators in the order of their positions.
InsertInPlace(sorted, entry) == Append(sorted, entry)

\* Vec::sort_by_key(|(precedence, _)| usize::MAX - precedence): a stable sort,
\* highest precedence first.  Entries are [precedence, index].
RECURSIVE InsertByPrecedence(_, _)
InsertByPrecedence(sorted, entry) ==
    IF sorted = <<>> THEN <<entry>>
    ELSE IF Head(sorted).precedence >= entry.precedence
         THEN <<Head(sorted)>> \o InsertByPrecedence(Tail(sorted), entry)
         ELSE <<entry>> \o sorted

RECURSIVE OperatorOrderLoop(_, _, _)
OperatorOrderLoop(atoms, i, sorted) ==
    IF i >= Len(atoms) THEN sorted
    ELSE IF atoms[i + 1].a = "Operator"
         THEN OperatorOrderLoop(atoms, i + 1,
                InsertByPrecedence(sorted,
                    [precedence |-> GetPrecedence(atoms[i + 1].v), index |-> i]))
         ELSE OperatorOrderLoop(atoms, i + 1, sorted)

OperatorOrder(atoms) == OperatorOrderLoop(atoms, 0, <<>>)

\* operator.1 - 2 on a usize: below zero it panics when overflow checks are on
\* and wraps when they are off.
IndexUnderflows(order, pivot) == \E j \in 1..Len(order) : order[j].index > pivot /\ order[j].index < 2
ShiftOperators(order, pivot) ==
    [j \in 1..Len(order) |->
        IF order[j].index > pivot
        THEN [order[j] EXCEPT !.index = (order[j].index - 2) % UsizeModulus]
        ELSE order[j]]

IsSomeOperator(atom) == IsSome(atom) /\ Unwrap(atom).a = "Operator"
IsSomeSubexpression(atom) == IsSome(atom) /\ Unwrap(atom).a = "Subexpression"

\* The fold loop of ExpressionParser::parse; atoms is a Vec<Option<ExpressionAtom>>.
RECURSIVE FoldLoop(_, _, _)
FoldLoop(i, atoms, operator_order) ==
    IF i >= Len(operator_order) THEN
        IF IsSomeSubexpression(atoms[1]) THEN Ok(Unwrap(atoms[1]).v)
        ELSE IF IsSome(atoms[1]) THEN Panic("Called unwrap on non subexpression!")
        ELSE Panic("called Option::unwrap() on a None value")
    ELSE
        LET index == operator_order[i + 1].index
        IN  IF index >= Len(atoms) THEN Panic("index out of bounds")
            ELSE
            LET taken == atoms[index + 1]
                atoms1 == [atoms EXCEPT ![index + 1] = None]
            IN  IF ~IsSomeOperator(taken) THEN Err("Missing operator!")
                ELSE IF Unwrap(taken).v = "Not" THEN
                    IF index + 1 >= Len(atoms1) THEN Panic("index out of bounds")
                    ELSE
                    LET rhs == atoms1[index + 2]
                        atoms2 == [atoms1 EXCEPT ![index + 2] = None]
                    IN  IF ~IsSomeSubexpression(rhs) THEN FoldLoop(i + 1, atoms2, operator_order)
                        ELSE IF i + 2 > Len(atoms2) THEN Panic("range end index out of range")
                        ELSE IF overflow_checks /\ IndexUnderflows(operator_order, i)
                             THEN Panic("attempt to subtract with overflow")
                        ELSE FoldLoop(i + 1,
                                Splice(atoms2, i, i + 1,
                                       <<Some(AtomSubexpression(NotExpression(Unwrap(rhs).v)))>>),
                                ShiftOperators(operator_order, i))
                ELSE IF index = 0
                     THEN Err("Expressions may not start with a binary operator!")
                ELSE IF index + 1 >= Len(atoms1) THEN Panic("index out of bounds")
                ELSE
                    LET lhs == atoms1[index]
                        rhs == atoms1[index + 2]
                        atoms2 == [atoms1 EXCEPT ![index] = None, ![index + 2] = None]
                    IN  IF ~(IsSomeSubexpression(lhs) /\ IsSomeSubexpression(rhs))
                        THEN FoldLoop(i + 1, atoms2, operator_order)
                        ELSE
                        LET resolved == ResolveBinaryOperator(Unwrap(taken).v,
                                                              Unwrap(lhs).v, Unwrap(rhs).v)
                        IN  IF ~IsOk(resolved) THEN resolved
                            ELSE FoldLoop(i + 1,
                                    Splice(atoms2, index - 1, index + 1,
                                           <<Some(AtomSubexpression(resolved.v))>>),
                                    ShiftOperators(operator_order, index))

RECURSIVE Parse(_)
RECURSIVE ParseRawAtom(_)
RECURSIVE AtomizeLoop(_, _)
RECURSIVE ParseEach(_, _)
RECURSIVE ParseFieldOverrides(_, _)
RECURSIVE ParseVariableAddressLoop(_, _)

\* ExpressionParser::atomize: every raw atom parsed, in order.
AtomizeLoop(raw_atoms, atoms) ==
    IF raw_atoms = <<>> THEN Ok(atoms)
    ELSE LET Parsed(atom) ==
                 IF ~IsOk(atom) THEN atom
                 ELSE AtomizeLoop(Tail(raw_atoms), Append(atoms, atom.v))
         IN  Parsed(ParseRawAtom(Head(raw_atoms)))

Atomize(expression) ==
    LET Cut(raw_atoms) ==
            IF ~IsOk(raw_atoms) THEN raw_atoms ELSE AtomizeLoop(raw_atoms.v, <<>>)
    IN  Cut(Split(expression))

\* The argument loop of a procedure call: each comma-separated slice parsed.
ParseEach(slices, expressions) ==
    IF slices = <<>> THEN Ok(expressions)
    ELSE LET Parsed(parsed) ==
                 IF ~IsOk(parsed) THEN parsed
                 ELSE ParseEach(Tail(slices), Append(expressions, parsed.v))
         IN  Parsed(Parse(Head(slices)))

\* The field loop of a struct construction: each slice is identifier : expression.
ParseFieldOverrides(fields, field_overrides) ==
    IF fields = <<>> THEN Ok(field_overrides)
    ELSE LET field == Head(fields)
         IN  IF field = <<>> \/ field[1].k # "Identifier"
             THEN Err("Unexpected token. Expected identifier, found field identifier!")
             ELSE IF Len(field) < 2 \/ field[2] # Colon
             THEN Err("Unexpected token. Expected identifier, found separator!")
             ELSE LET Parsed(parsed) ==
                          IF ~IsOk(parsed) THEN parsed
                          ELSE ParseFieldOverrides(Tail(fields),
                                   Append(field_overrides, <<field[1].s, parsed.v>>))
                  IN  Parsed(Parse(SubSeq(field, 3, Len(field))))

\* The loop shared by ExpressionParser::parse_variable_address and
\* ScopeAddress::try_from(Vec<Token>): identifiers, dots (skipped) and [expression].
ParseVariableAddressLoop(tokens, address) ==
    LET Rest(rest, addressants) == ParseVariableAddressLoop(rest, addressants) IN
    IF tokens = <<>> THEN Ok(address)
    ELSE LET next == Head(tokens)
             Parsed(index_expression, rest) ==
                 IF ~IsOk(index_expression) THEN index_expression
                 ELSE Rest(rest, Append(address, AddrDynamicIndex(index_expression.v)))
             Taken(inner) ==
                 IF ~IsOk(inner) THEN inner ELSE Parsed(Parse(inner.v.slice), inner.v.rest)
         IN  IF next.k = "Identifier"
             THEN Rest(Tail(tokens), Append(address, AddrIdentifier(next.s)))
             ELSE IF next = Dot THEN Rest(Tail(tokens), address)
             ELSE IF next = SquareOpen THEN Taken(TakeUntilClosing(Tail(tokens), SquareClose))
             ELSE Err("Unexpected token. Expected addressant!")

\* ExpressionParser::parse_variable_address
ParseVariableAddress(tokens) ==
    LET Parsed(address) ==
            IF ~IsOk(address) THEN address
            ELSE IF address.v = <<>>
            THEN Err("Could not resolve the address of the variable!")
            ELSE Ok(AtomSubexpression(VariableExpression(address.v)))
    IN  Parsed(ParseVariableAddressLoop(tokens, <<>>))

\* impl TryFrom<Vec<Token>> for ScopeAddress
ScopeAddressTryFrom(tokens) ==
    LET Parsed(address) ==
            IF ~IsOk(address) THEN
                (IF address.v = "Unexpected token. Expected addressant!"
                 THEN Err("Invalid address. Found unexpected token!") ELSE address)
            ELSE IF address.v = <<>> THEN Err("Address could not be parsed!")
            ELSE address
    IN  Parsed(ParseVariableAddressLoop(tokens, <<>>))

\* The identifier :: branch of parse_raw_atom: a procedure call or a struct construction.
ParseModuleMember(base_ident, tokens) ==
    IF tokens = <<>> \/ Head(tokens).k # "Identifier"
    THEN Err("Unexpected token. Expected identifier, found member identifier")
    ELSE LET member_ident == Head(tokens).s
             after == Tail(tokens)
             is_call == after # <<>> /\ Head(after) = ParOpen
             Parsed(expressions) ==
                 IF ~IsOk(expressions) THEN expressions
                 ELSE IF is_call
                 THEN Ok(AtomSubexpression(ProcedureCallExpression(
                          ModuleAddress(base_ident, member_ident), expressions.v)))
                 ELSE Ok(AtomSubexpression(StructConstructionExpression(
                          ModuleAddress(base_ident, member_ident), expressions.v)))
             Separated(slices) ==
                 IF ~IsOk(slices) THEN slices
                 ELSE IF is_call THEN Parsed(ParseEach(slices.v, <<>>))
                 ELSE Parsed(ParseFieldOverrides(slices.v, <<>>))
             Taken(inner) ==
                 IF ~IsOk(inner) THEN inner ELSE Separated(SplitByCommas(inner.v.slice))
         IN  IF is_call THEN Taken(TakeUntilClosing(Tail(after), ParClose))
             ELSE IF after # <<>> /\ Head(after) = CurlyOpen
             THEN Taken(TakeUntilClosing(Tail(after), CurlyClose))
             ELSE Err("Unexpected token")

\* ExpressionParser::parse_raw_atom
ParseRawAtom(atom) ==
    IF atom.a = "Operator" THEN Ok(atom)
    ELSE LET tokens == atom.v
         IN  IF Len(tokens) = 0 THEN Err("Found empty subexpression atom!")
             ELSE IF Len(tokens) = 1 THEN
                 (IF tokens[1].k = "Literal" THEN
                      LET Converted(value) ==
                              IF ~IsOk(value) THEN value
                              ELSE Ok(AtomSubexpression(ValueExpression(value.v)))
                      IN  Converted(ValueTryFromLiteral(tokens[1]))
                  ELSE IF tokens[1].k = "Identifier" THEN
                      Ok(AtomSubexpression(VariableExpression(<<AddrIdentifier(tokens[1].s)>>)))
                  ELSE Err("Unexpected token. Expected literal or identifier"))
             ELSE IF tokens[1] = ParOpen THEN
                 LET Parsed(parsed) ==
                         IF ~IsOk(parsed) THEN parsed ELSE Ok(AtomSubexpression(parsed.v))
                     Taken(subexpression) ==
                         IF ~IsOk(subexpression) THEN subexpression
                         ELSE IF subexpression.v.rest # <<>>
                         THEN Err("Unexpected token. Expected operator")
                         ELSE Parsed(Parse(subexpression.v.slice))
                 IN  Taken(TakeUntilClosing(Tail(tokens), ParClose))
             ELSE IF tokens[1].k = "Identifier" THEN
                 (IF tokens[2] = DoubleColon
                  THEN ParseModuleMember(tokens[1].s, SubSeq(tokens, 3, Len(tokens)))
                  ELSE ParseVariableAddress(tokens))
             ELSE Err("Unexpected token. Expected identifier, found base identifier!")

\* ExpressionParser::parse
Parse(expression) ==
    LET Atomized(atoms) ==
            IF ~IsOk(atoms) THEN atoms
            ELSE FoldLoop(0, [j \in 1..Len(atoms.v) |-> Some(atoms.v[j])],
                          OperatorOrder(atoms.v))
    IN  Atomized(Atomize(expression))

-----------------------------------------------------------------------------
(* Instructions and the procedure builder (runtime/procedures.rs) *)

\* Every instruction is a record of the same shape.  `expression` holds the
\* expression of EvaluateExpression and Return and the condition_expression of
\* JumpConditional; `target` is the Option<ScopeAddress> of EvaluateExpression.
BlankInstruction ==
    [op |-> "GrowStack", identifier |-> "", expression |-> ValueExpression(Null),
     target |-> None, jump_target |-> 0]
PushVarToScope(identifier) ==
    [BlankInstruction EXCEPT !.op = "PushVarToScope", !.identifier = identifier]
PopVarFromScope(identifier) ==
    [BlankInstruction EXCEPT !.op = "PopVarFromScope", !.identifier = identifier]
GrowStack == BlankInstruction
ShrinkStack == [BlankInstruction EXCEPT !.op = "ShrinkStack"]
EvaluateExpression(expression, target) ==
    [BlankInstruction EXCEPT !.op = "EvaluateExpression", !.expression = expression,
                             !.target = target]
JumpConditional(condition_expression, jump_target) ==
    [BlankInstruction EXCEPT !.op = "JumpConditional", !.expression = condition_expression,
                             !.jump_target = jump_target]
Return(expression) == [BlankInstruction EXCEPT !.op = "Return", !.expression = expression]

CompiledProcedure(arguments_identifiers, instructions) ==
    [kind |-> "Compiled", arguments_identifiers |-> arguments_identifiers,
     instructions |-> instructions]

IfScopeEscapeHandler(target_instruction) ==
    [handler |-> "If", target_instruction |-> target_instruction]
WhileScopeEscapeHandler(target_instruction) ==
    [handler |-> "While", target_instruction |-> target_instruction]

\* CompiledProcedureBuilderState, one record shape for all variants: `expression`
\* is the token buffer of the variant (expression, condition_expression, tokens),
\* `has_expression` tells Some from None for VarDeclaration's Option<Vec<Token>>.
BuilderBase ==
    [st |-> "Base", ident |-> None, has_expression |-> FALSE, expression |-> <<>>,
     address |-> <<>>, parenthesis_index |-> 0, original_jump |-> 0]
BuilderVarDeclaration(ident, has_expression, expression) ==
    [BuilderBase EXCEPT !.st = "VarDeclaration", !.ident = ident,
                        !.has_expression = has_expression, !.expression = expression]
BuilderAssignment(address, expression) ==
    [BuilderBase EXCEPT !.st = "Assignment", !.address = address, !.expression = expression]
BuilderIfStatement(condition_expression, parenthesis_index) ==
    [BuilderBase EXCEPT !.st = "IfStatement", !.expression = condition_expression,
                        !.parenthesis_index = parenthesis_index]
BuilderElseStatement(original_jump) ==
    [BuilderBase EXCEPT !.st = "ElseStatement", !.original_jump = original_jump]
BuilderWhileStatement(condition_expression, parenthesis_index) ==
    [BuilderBase EXCEPT !.st = "WhileStatement", !.expression = condition_expression,
                        !.parenthesis_index = parenthesis_index]
BuilderIndeterminate(tokens) == [BuilderBase EXCEPT !.st = "Indeterminate", !.expression = tokens]
BuilderReturn(expression) == [BuilderBase EXCEPT !.st = "Return", !.expression = expression]

\* CompiledProcedureBuilder::new.  `emitted_by` is a history field, not in the
\* source: for each instruction, the statement kind that emitted it.
CompiledProcedureBuilderNew ==
    [procedure |-> CompiledProcedure(<<>>, <<>>),
     state |-> BuilderBase,
     scope_stack |-> <<>>,
     last_popped_scope |-> None,
     emitted_by |-> <<>>]

\* instructions.push(instruction)
Emit(builder, instruction, by) ==
    [builder EXCEPT !.procedure.instructions = Append(@, instruction),
                    !.emitted_by = Append(@, by)]

\* CompiledProcedureBuilder::is_scanning
IsScanning(builder) == builder.state.st # "Base"

\* CompiledProcedureBuilder::push_argument_identifier
PushArgumentIdentifier(builder, ident) ==
    [builder EXCEPT !.procedure.arguments_identifiers = Append(@, ident)]

\* CompiledProcedureBuilder::scope_stack_size
ScopeStackSize(builder) == Len(builder.scope_stack)

\* The patch both handlers end with: instructions[target_instruction] must be a
\* JumpConditional, whose jump_target becomes next_ic.
PatchJump(builder, target_instruction, next_ic) ==
    IF /\ target_instruction < Len(builder.procedure.instructions)
       /\ builder.procedure.instructions[target_instruction + 1].op = "JumpConditional"
    THEN Ok([builder EXCEPT
                !.procedure.instructions[target_instruction + 1].jump_target = next_ic])
    ELSE Panic("Tried resolving if scope escape but initial jump is missing!")

\* Faulty variant of IfScopeEscapeHandler::resolve: the jump is left unresolved.
IfResolveUnpatched(builder, handler) ==
    Ok(Emit(builder, ShrinkStack, "if-end"))

\* IfScopeEscapeHandler::resolve
IfResolve(builder, handler) ==
    LET b1 == Emit(builder, ShrinkStack, "if-end")
    IN  PatchJump(b1, handler.target_instruction, Len(b1.procedure.instructions))

\* Faulty variant of WhileScopeEscapeHandler::resolve: the back-jump is
\* missing, the head is patched to the index after the ShrinkStack.
WhileResolveNoBackJump(builder, handler) ==
    LET b1 == Emit(builder, ShrinkStack, "while-end")
    IN  PatchJump(b1, handler.target_instruction, Len(b1.procedure.instructions))

\* Faulty variant of WhileScopeEscapeHandler::resolve: the frame of the
\* iteration is not removed before the jump back.
WhileResolveNoShrink(builder, handler) ==
    LET b2 == Emit(builder, JumpConditional(ValueExpression(Bool(TRUE)),
                                            handler.target_instruction), "while-back")
    IN  PatchJump(b2, handler.target_instruction, Len(b2.procedure.instructions))

\* WhileScopeEscapeHandler::resolve
WhileResolve(builder, handler) ==
    LET b1 == Emit(builder, ShrinkStack, "while-end")
        b2 == Emit(b1, JumpConditional(ValueExpression(Bool(TRUE)),
                                       handler.target_instruction), "while-back")
    IN  PatchJump(b2, handler.target_instruction, Len(b2.procedure.instructions))

\* dyn ScopeExcapeHandler::resolve
Resolve(builder, handler) ==
    IF handler.handler = "If" THEN IfResolve(builder, handler)
    ELSE WhileResolve(builder, handler)

\* The IfStatement and WhileStatement arms of finish_current_instruction.
FinishConditional(builder, handler, by) ==
    IF builder.state.parenthesis_index > 0 THEN Err("Invalid parenthesis structure!")
    ELSE LET Parsed(parsed) ==
                 IF ~IsOk(parsed) THEN parsed
                 ELSE Ok(Emit(Emit([builder EXCEPT !.scope_stack = Append(@, handler)],
                                   JumpConditional(NotExpression(parsed.v), UsizeMax), by),
                              GrowStack, by))
         IN  Parsed(Parse(builder.state.expression))

\* An ElseStatement arm that leaves the target of the original jump as it is.
FinishElseSameTarget(builder) ==
    LET b2 == [builder EXCEPT !.scope_stack =
                  Append(@, IfScopeEscapeHandler(Len(builder.procedure.instructions)))]
        b3 == Emit(b2, JumpConditional(ValueExpression(Bool(TRUE)), UsizeMax), "else")
    IN  Ok(Emit(b3, GrowStack, "else"))

\* An ElseStatement arm that moves the target of the original jump by two.
FinishElseTwoFurther(builder) ==
    LET original_jump == builder.state.original_jump
        b1 == [builder EXCEPT
                  !.procedure.instructions[original_jump + 1].jump_target =
                      (@ + 2) % UsizeModulus]
        b2 == [b1 EXCEPT !.scope_stack =
                  Append(@, IfScopeEscapeHandler(Len(b1.procedure.instructions)))]
        b3 == Emit(b2, JumpConditional(ValueExpression(Bool(TRUE)), UsizeMax), "else")
    IN  Ok(Emit(b3, GrowStack, "else"))

\* The ElseStatement arm of finish_current_instruction.
FinishElse(builder) ==
    LET original_jump == builder.state.original_jump
        instructions == builder.procedure.instructions
    IN  IF original_jump >= Len(instructions) THEN Panic("index out of bounds")
        ELSE IF instructions[original_jump + 1].op # "JumpConditional"
        THEN Err("Instruction referenced by if scope handler is not of type JumpConditional!")
        ELSE IF overflow_checks /\ instructions[original_jump + 1].jump_target = UsizeMax
        THEN Panic("attempt to add with overflow")
        ELSE LET b1 == [builder EXCEPT
                           !.procedure.instructions[original_jump + 1].jump_target =
                               (@ + 1) % UsizeModulus]
                 b2 == [b1 EXCEPT !.scope_stack =
                           Append(@, IfScopeEscapeHandler(Len(b1.procedure.instructions)))]
                 b3 == Emit(b2, JumpConditional(ValueExpression(Bool(TRUE)), UsizeMax), "else")
             IN  Ok(Emit(b3, GrowStack, "else"))

\* The arms of finish_current_instruction, before the state is reset to Base.
FinishArm(builder) ==
    LET st == builder.state
        ic == Len(builder.procedure.instructions)
        \* What the arm emits once its expression is parsed.
        Parsed(parsed, target) ==
            IF ~IsOk(parsed) THEN parsed
            ELSE CASE st.st = "VarDeclaration" ->
                        Ok(Emit(Emit(builder, PushVarToScope(Unwrap(st.ident)), "let"),
                                EvaluateExpression(parsed.v,
                                    Some(<<AddrIdentifier(Unwrap(st.ident))>>)), "let"))
                   [] st.st = "Assignment" ->
                        Ok(Emit(builder, EvaluateExpression(parsed.v, Some(target.v)),
                                "assignment"))
                   [] st.st = "Indeterminate" ->
                        Ok(Emit(builder, EvaluateExpression(parsed.v, None), "expression"))
                   [] st.st = "Return" -> Ok(Emit(builder, Return(parsed.v), "return"))
        \* What the arm does before it parses its expression: `done` when
        \* there is no expression to parse.
        Before(target) ==
            CASE st.st = "Base" -> Ok([done |-> TRUE, builder |-> builder])
              [] st.st = "VarDeclaration" ->
                    IF ~IsSome(st.ident) THEN Err("Missing variable identifier!")
                    ELSE IF ~st.has_expression
                    THEN Ok([done |-> TRUE,
                             builder |-> Emit(builder, PushVarToScope(Unwrap(st.ident)), "let")])
                    ELSE Ok([done |-> FALSE, builder |-> builder])
              [] st.st = "Assignment" ->
                    IF ~IsOk(target) THEN target ELSE Ok([done |-> FALSE, builder |-> builder])
              [] st.st = "Indeterminate" -> Ok([done |-> FALSE, builder |-> builder])
              [] st.st = "Return" ->
                    IF st.expression = <<>>
                    THEN Ok([done |-> TRUE,
                             builder |-> Emit(builder, Return(ValueExpression(Null)), "return")])
                    ELSE Ok([done |-> FALSE, builder |-> builder])
        Statement(checked, target) ==
            IF ~IsOk(checked) THEN checked
            ELSE IF checked.v.done THEN Ok(checked.v.builder)
            ELSE Parsed(Parse(st.expression), target)
        Targeted(target) == Statement(Before(target), target)
    IN  CASE st.st \in {"IfStatement", "WhileStatement"} ->
                FinishConditional(builder,
                    IF st.st = "IfStatement" THEN IfScopeEscapeHandler(ic)
                    ELSE WhileScopeEscapeHandler(ic),
                    IF st.st = "IfStatement" THEN "if" ELSE "while")
          [] st.st = "ElseStatement" -> FinishElse(builder)
          [] OTHER ->
                Targeted(IF st.st = "Assignment" THEN ScopeAddressTryFrom(st.address)
                         ELSE Ok(<<>>))

\* CompiledProcedureBuilder::finish_current_instruction
FinishCurrentInstruction(builder) ==
    LET Finished(finished) ==
            IF ~IsOk(finished) THEN finished
            ELSE Ok([finished.v EXCEPT !.state = BuilderBase])
    IN  Finished(FinishArm(builder))

\* The parenthesis counting of the IfStatement and WhileStatement arms of read.
\* `finish` says that the statement ends here: the builder goes on to
\* finish_current_instruction.
ReadConditional(builder, token) ==
    LET st == builder.state
        counted ==
            IF token = ParOpen THEN Ok(st.parenthesis_index + 1)
            ELSE IF token = ParClose THEN
                (IF st.parenthesis_index > 0 THEN Ok(st.parenthesis_index - 1)
                 ELSE Err("Invalid parenthesis structure!"))
            ELSE Ok(st.parenthesis_index)
    IN  IF ~IsOk(counted) THEN counted
        ELSE LET b1 == [builder EXCEPT !.state.parenthesis_index = counted.v]
             IN  IF token = CurlyOpen /\ counted.v = 0
                 THEN Ok([finish |-> TRUE, builder |-> b1])
                 ELSE Ok([finish |-> FALSE,
                          builder |-> [b1 EXCEPT !.state.expression = Append(@, token)]])

\* The Base arm of CompiledProcedureBuilder::read.
ReadBase(builder, token) ==
    CASE token = Keyword("Let") ->
            Ok([builder EXCEPT !.state = BuilderVarDeclaration(None, FALSE, <<>>)])
      [] token = Keyword("If") ->
            Ok([builder EXCEPT !.state = BuilderIfStatement(<<>>, 0)])
      [] token = Keyword("Else") ->
            IF ~IsSome(builder.last_popped_scope) THEN Err("Missing if-clause!")
            ELSE IF Unwrap(builder.last_popped_scope).handler # "If"
            THEN Err("else-clauses can only extend if clauses!")
            ELSE Ok([builder EXCEPT !.state =
                        BuilderElseStatement(Unwrap(builder.last_popped_scope).target_instruction)])
      [] token = Keyword("While") ->
            Ok([builder EXCEPT !.state = BuilderWhileStatement(<<>>, 0)])
      [] token = Keyword("Return") ->
            Ok([builder EXCEPT !.state = BuilderReturn(<<>>)])
      [] token = CurlyClose ->
            IF builder.scope_stack = <<>> THEN Err("Invalid closing curly brace!")
            ELSE LET handler == Last(builder.scope_stack)
                     Resolved(resolved) ==
                         IF ~IsOk(resolved) THEN resolved
                         ELSE Ok([resolved.v EXCEPT !.last_popped_scope = Some(handler)])
                 IN  Resolved(Resolve([builder EXCEPT !.scope_stack = Front(@)], handler))
      [] OTHER -> Ok([builder EXCEPT !.state = BuilderIndeterminate(<<token>>)])

\* CompiledProcedureBuilder::read
BuilderRead(builder, token) ==
    LET st == builder.state
        Counted(counted) ==
            IF ~IsOk(counted) THEN counted
            ELSE IF counted.v.finish THEN FinishCurrentInstruction(counted.v.builder)
            ELSE Ok(counted.v.builder)
    IN  IF token = Semicolon \/ (st.st = "ElseStatement" /\ token = CurlyOpen)
        THEN Counted(Ok([finish |-> TRUE, builder |-> builder]))
        ELSE IF st.st \in {"IfStatement", "WhileStatement"}
        THEN Counted(ReadConditional(builder, token))
        ELSE CASE st.st = "Base" -> ReadBase(builder, token)
               [] st.st = "VarDeclaration" ->
                    IF ~IsSome(st.ident) THEN
                        (IF token.k = "Identifier"
                         THEN Ok([builder EXCEPT !.state.ident = Some(token.s)])
                         ELSE Err("Unexprected token. Expected identifier!"))
                    ELSE IF st.has_expression
                         THEN Ok([builder EXCEPT !.state.expression = Append(@, token)])
                    ELSE IF token = Operator("Assignment")
                         THEN Ok([builder EXCEPT !.state.has_expression = TRUE,
                                                 !.state.expression = <<>>])
                    ELSE Err("Unexprected token. Expected =!")
               [] st.st = "Assignment" ->
                    Ok([builder EXCEPT !.state.expression = Append(@, token)])
               [] st.st = "ElseStatement" -> Err("Unexpected token. Expected {!")
               [] st.st = "Indeterminate" ->
                    IF token = Operator("Assignment")
                    THEN Ok([builder EXCEPT !.state = BuilderAssignment(st.expression, <<>>)])
                    ELSE Ok([builder EXCEPT !.state.expression = Append(@, token)])
               [] st.st = "Return" ->
                    Ok([builder EXCEPT !.state.expression = Append(@, token)])

\* Faulty variant of CompiledProcedureBuilder::build: no check of the state
\* nor of the scope-escape stack.
BuildUnchecked(builder) == Ok(builder.procedure)

\* CompiledProcedureBuilder::build
Build(builder) ==
    IF builder.state.st = "Base" THEN
        IF builder.scope_stack # <<>> THEN Err("Unclosed scope!")
        ELSE Ok(builder.procedure)
    ELSE Err("Incomplete instruction!")

-----------------------------------------------------------------------------
(* Modules and the compiler states (runtime/module.rs, compiler/states) *)

\* HashMap: a function from the keys present to their values.
EmptyMap == [key \in {} |-> Null]
MapInsert(map, key, value) ==
    [k \in DOMAIN map \cup {key} |-> IF k = key THEN value ELSE map[k]]

\* A procedure that is not compiled from source is known by its type name.
BuiltinProcedure(name) ==
    [kind |-> name, arguments_identifiers |-> <<>>, instructions |-> <<>>]

\* Module::default
ModuleDefault == [struct_prototypes |-> EmptyMap, procedures |-> EmptyMap]

\* Module::insert_procedure
InsertProcedure(module, identifier, procedure, exported) ==
    [module EXCEPT !.procedures =
        MapInsert(@, identifier, [procedure |-> procedure, exported |-> exported])]

\* Module::insert_struct
InsertStruct(module, identifier, prototype, exported) ==
    [module EXCEPT !.struct_prototypes =
        MapInsert(@, identifier, [prototype |-> prototype, exported |-> exported])]

\* Module::set_member_visibility
SetMemberVisibility(module, member_ident, visibility) ==
    IF member_ident \in DOMAIN module.procedures
    THEN Ok([module EXCEPT !.procedures[member_ident].exported = visibility])
    ELSE IF member_ident \in DOMAIN module.struct_prototypes
    THEN Ok([module EXCEPT !.struct_prototypes[member_ident].exported = visibility])
    ELSE Err("Member not found!")

\* builtin::arrays::get_module, builtin::strings::get_module, builtin::numbers::get_module
ArraysModule ==
    InsertProcedure(InsertProcedure(ModuleDefault, "new", BuiltinProcedure("NewArrayProcedure"), TRUE),
                    "size", BuiltinProcedure("ArraySizeProcedure"), TRUE)
StringsModule ==
    InsertProcedure(InsertProcedure(InsertProcedure(ModuleDefault,
        "length", BuiltinProcedure("StringLengthProcdure"), TRUE),
        "toCharArray", BuiltinProcedure("StringToCharArrayProcedure"), TRUE),
        "split", BuiltinProcedure("StringSplitProcedure"), TRUE)
NumbersModule ==
    InsertProcedure(ModuleDefault, "parse", BuiltinProcedure("NumberParseProcedure"), TRUE)

\* Stack::new: one empty frame.
StackNew == <<EmptyMap>>

\* Environment::default
EnvironmentDefault ==
    [contained_module_id |-> "",
     loaded_modules |-> MapInsert(MapInsert(MapInsert(EmptyMap, "Arrays", ArraysModule),
                                            "Strings", StringsModule), "Numbers", NumbersModule),
     scope |-> StackNew]

\* Environment::load_module
LoadModule(environment, module_id, module) ==
    [environment EXCEPT !.loaded_modules = MapInsert(@, module_id, module)]

\* Struct::new followed by MemberMap::insert_member for each field.
StructNew(struct_id) == [struct_id |-> struct_id, members |-> EmptyMap]
InsertMember(struct, ident, value, is_public) ==
    IF ident \in DOMAIN struct.members
    THEN Err("Cannot insert key into struct as it is already present!")
    ELSE Ok([struct EXCEPT !.members =
                MapInsert(@, ident, [is_public |-> is_public, value |-> value])])
RECURSIVE InsertFields(_, _)
InsertFields(prototype, fields) ==
    IF fields = <<>> THEN Ok(prototype)
    ELSE LET inserted == InsertMember(prototype, Head(fields)[1], Null, Head(fields)[2])
         IN  IF ~IsOk(inserted) THEN Err("Error while parsing struct prototype")
             ELSE InsertFields(inserted.v, Tail(fields))

\* An enqueue that does not consult read_modules.
EnqueueAgain(file_reader, module) ==
    [queue |-> Append(file_reader.queue, module),
     read_modules |-> file_reader.read_modules \cup {module}]

\* FileReader::new and FileReader::enqueue
FileReaderNew == [queue |-> <<>>, read_modules |-> {}]
Enqueue(file_reader, module) ==
    IF module \in file_reader.read_modules THEN file_reader
    ELSE [queue |-> Append(file_reader.queue, module),
          read_modules |-> file_reader.read_modules \cup {module}]

\* CompilerEnvironment::new; a decorator is the procedure_id of an
\* EntrypointDecorator, the only kind there is.
CompilerEnvironmentNew == [decorators |-> <<>>, file_reader |-> FileReaderNew]

\* The compiler state is a chain of nested states: Base inside Import or
\* Module, Module inside Decorator, Procedure or Struct.  `kind` names the
\* innermost one; the records of the states that are not on the chain are blank.
BlankImport == [module_id |-> None]
BlankModuleState == [module_name |-> None, substate |-> "PreScope", module |-> ModuleDefault]
BlankDecorator == [decorators |-> <<>>, num_decorators |-> 1]
BlankProcedure ==
    [decorators |-> <<>>, name |-> None, procedure |-> CompiledProcedureBuilderNew,
     substate |-> "Ident"]
BlankStruct ==
    [substate |-> "Identifier", is_public |-> FALSE, identifier |-> None, fields |-> <<>>]

\* CompilerBaseState::new
CompilerBaseStateNew ==
    [kind |-> "Base",
     base |-> [environment |-> EnvironmentDefault],
     import |-> BlankImport,
     module |-> BlankModuleState,
     decorator |-> BlankDecorator,
     procedure |-> BlankProcedure,
     struct |-> BlankStruct]

\* The state a compiler is left in once read returned an error: read consumes
\* the compiler, so nothing of it survives.
Dropped == [CompilerBaseStateNew EXCEPT !.kind = "Dropped"]

\* Ok(Box::new(self.base)), Ok(Box::new(self.module)): return to an outer state.
ToBase(st) ==
    [st EXCEPT !.kind = "Base", !.import = BlankImport, !.module = BlankModuleState]
ToModule(st) ==
    [st EXCEPT !.kind = "Module", !.decorator = BlankDecorator,
               !.procedure = BlankProcedure, !.struct = BlankStruct]

\* What a state read returns: the next state and the compiler environment.
\* `inserted` is a history field: the builder a procedure was built from and the
\* name it was inserted under, when this read inserted one.
Next2(st, cenv) == Ok([state |-> st, compiler_environment |-> cenv, inserted |-> None])

\* CompilerBaseState::read
BaseRead(st, cenv, token) ==
    IF token = Keyword("Module") THEN Next2([st EXCEPT !.kind = "Module"], cenv)
    ELSE IF token = Keyword("Import") THEN Next2([st EXCEPT !.kind = "Import"], cenv)
    ELSE Err("Unexpected token")

\* CompilerImportState::read
ImportRead(st, cenv, token) ==
    IF ~IsSome(st.import.module_id) THEN
        IF token.k = "Identifier"
        THEN Next2([st EXCEPT !.import.module_id =
                        Some([module_id |-> token.s, path |-> None])], cenv)
        ELSE Err("Unexpected token. Expected identifier!")
    ELSE LET module_id == Unwrap(st.import.module_id)
         IN  CASE token = Semicolon ->
                    Next2(ToBase(st),
                          [cenv EXCEPT !.file_reader = Enqueue(@, module_id)])
               [] token = Keyword("From") ->
                    IF IsSome(module_id.path)
                    THEN Err("Cannot declare more than one location for an import!")
                    ELSE Next2([st EXCEPT !.import.module_id =
                                    Some([module_id EXCEPT !.path = Some(<<>>)])], cenv)
               [] token.k = "Literal" /\ token.s = "String" ->
                    IF IsSome(module_id.path)
                    THEN Next2([st EXCEPT !.import.module_id =
                                    Some([module_id EXCEPT !.path = Some(token.text)])], cenv)
                    ELSE Err("Unexpected String literal.")
               [] OTHER -> Err("Unexpected token. Expected ;!")

\* CompilerModuleState::read
ModuleRead(st, cenv, token) ==
    CASE st.module.substate = "PreScope" ->
            IF ~IsSome(st.module.module_name) THEN
                (IF token.k = "Identifier"
                 THEN Next2([st EXCEPT !.module.module_name = Some(token.s)], cenv)
                 ELSE Err("Unexpected token! Expected identifier"))
            ELSE IF token = CurlyOpen
                 THEN Next2([st EXCEPT !.module.substate = "InScope"], cenv)
                 ELSE Err("Unexpected token! Expected {")
      [] st.module.substate = "InScope" ->
            CASE token = CurlyClose ->
                    Next2(ToBase([st EXCEPT !.base.environment =
                            LoadModule(@, Unwrap(st.module.module_name), st.module.module)]),
                          cenv)
              [] token = Keyword("Proc") ->
                    Next2([st EXCEPT !.kind = "Procedure", !.procedure = BlankProcedure], cenv)
              [] token = Keyword("Struct") ->
                    Next2([st EXCEPT !.kind = "Struct", !.struct = BlankStruct], cenv)
              [] token = At ->
                    Next2([st EXCEPT !.kind = "Decorator", !.decorator = BlankDecorator], cenv)
              [] token = Keyword("Export") ->
                    Next2([st EXCEPT !.module.substate = "Export"], cenv)
              [] OTHER -> Err("Unexpected token! Expected procedure/struct declaration")
      [] st.module.substate = "Export" ->
            CASE token = Comma -> Next2(st, cenv)
              [] token.k = "Identifier" ->
                    LET set == SetMemberVisibility(st.module.module, token.s, TRUE)
                    IN  IF ~IsOk(set) THEN set
                        ELSE Next2([st EXCEPT !.module.module = set.v], cenv)
              [] token = Semicolon -> Next2([st EXCEPT !.module.substate = "InScope"], cenv)
              [] OTHER -> Err("Unexpected token. Expected identifier!")

\* CompilerDecoratorState::read
DecoratorRead(st, cenv, token) ==
    CASE token = At ->
            IF st.decorator.num_decorators > Len(st.decorator.decorators)
            THEN Err("Unexpected token! Expected identifier")
            ELSE Next2([st EXCEPT !.decorator.num_decorators = @ + 1], cenv)
      [] token.k = "Identifier" ->
            IF Len(st.decorator.decorators) >= st.decorator.num_decorators
            THEN Err("Unexpected token! Expected @")
            ELSE Next2([st EXCEPT !.decorator.decorators = Append(@, token.s)], cenv)
      [] token = Keyword("Proc") ->
            Next2([st EXCEPT !.kind = "Procedure", !.decorator = BlankDecorator,
                             !.procedure = [BlankProcedure EXCEPT
                                               !.decorators = st.decorator.decorators]], cenv)
      [] OTHER -> Err("Unexpected token!")

\* CompilerStructState::read
StructRead(st, cenv, token) ==
    CASE st.struct.substate = "Identifier" ->
            IF token.k = "Identifier"
            THEN Next2([st EXCEPT !.struct.identifier = Some(token.s),
                                  !.struct.substate = "PreFields"], cenv)
            ELSE Err("Unexpected token. Expected identifier!")
      [] st.struct.substate = "PreFields" ->
            IF token = CurlyOpen
            THEN Next2([st EXCEPT !.struct.substate = "Field", !.struct.is_public = FALSE], cenv)
            ELSE Err("Unexpected token. Expected {!")
      [] st.struct.substate = "Field" ->
            IF token = Keyword("Public")
            THEN Next2([st EXCEPT !.struct.is_public = TRUE], cenv)
            ELSE IF token.k = "Identifier"
            THEN Next2([st EXCEPT !.struct.fields = Append(@, <<token.s, st.struct.is_public>>),
                                  !.struct.substate = "AfterField",
                                  !.struct.is_public = FALSE], cenv)
            ELSE Err("Unexpected token. Expected identifier!")
      [] st.struct.substate = "AfterField" ->
            IF token = Comma
            THEN Next2([st EXCEPT !.struct.substate = "Field", !.struct.is_public = FALSE], cenv)
            ELSE IF token = CurlyClose
            THEN LET identifier == Unwrap(st.struct.identifier)
                     struct_id == ModuleAddress(Unwrap(st.module.module_name), identifier)
                     prototype == InsertFields(StructNew(struct_id), st.struct.fields)
                 IN  IF ~IsOk(prototype) THEN prototype
                     ELSE Next2(ToModule([st EXCEPT !.module.module =
                                    InsertStruct(@, identifier, prototype.v, FALSE)]), cenv)
            ELSE Err("Unexpected token. Expected , or }!")

\* The decorator loop of CompilerProcedureState::read.
RECURSIVE ApplyDecorators(_, _, _)
ApplyDecorators(decorators, procedure_id, cenv) ==
    IF decorators = <<>> THEN Ok(cenv)
    ELSE IF Head(decorators) = "entrypoint"
    THEN ApplyDecorators(Tail(decorators), procedure_id,
                         [cenv EXCEPT !.decorators = Append(@, procedure_id)])
    ELSE Err("Unsupported decorator!")

\* The closing brace of a procedure body: build, insert_procedure, decorators.
FinishProcedure(st, cenv) ==
    LET procedure == Build(st.procedure.procedure)
    IN  IF ~IsOk(procedure) THEN procedure
        ELSE LET name == Unwrap(st.procedure.name)
                 st1 == [st EXCEPT !.module.module =
                            InsertProcedure(@, name, procedure.v, FALSE)]
                 decorated == ApplyDecorators(st.procedure.decorators,
                                  ModuleAddress(Unwrap(st.module.module_name), name), cenv)
             IN  IF ~IsOk(decorated) THEN decorated
                 ELSE Ok([state |-> ToModule(st1), compiler_environment |-> decorated.v,
                          inserted |-> Some([name |-> name,
                                             builder |-> st.procedure.procedure])])

\* CompilerProcedureState::read
ProcedureRead(st, cenv, token) ==
    IF ~IsSome(st.procedure.name) THEN
        IF token.k = "Identifier"
        THEN Next2([st EXCEPT !.procedure.name = Some(token.s)], cenv)
        ELSE Err("Unexpected token! Expected identifier")
    ELSE CASE st.procedure.substate = "Ident" ->
                IF token = ParOpen
                THEN Next2([st EXCEPT !.procedure.substate = "PreArgument"], cenv)
                ELSE Err("Unexpected token! Expected (")
           [] st.procedure.substate = "PreArgument" ->
                IF token.k = "Identifier"
                THEN Next2([st EXCEPT !.procedure.procedure =
                                          PushArgumentIdentifier(@, token.s),
                                      !.procedure.substate = "Argument"], cenv)
                ELSE IF token = ParClose
                THEN Next2([st EXCEPT !.procedure.substate = "PreInstructions"], cenv)
                ELSE Err("Unexpected token! Expected identifier")
           [] st.procedure.substate = "Argument" ->
                IF token = Comma
                THEN Next2([st EXCEPT !.procedure.substate = "PreArgument"], cenv)
                ELSE IF token = ParClose
                THEN Next2([st EXCEPT !.procedure.substate = "PreInstructions"], cenv)
                ELSE Err("Unexpected token! Expected , or )")
           [] st.procedure.substate = "PreInstructions" ->
                IF token = CurlyOpen
                THEN Next2([st EXCEPT !.procedure.substate = "Instructions"], cenv)
                ELSE Err("Unexpected token! Expected {")
           [] st.procedure.substate = "Instructions" ->
                IF token = CurlyClose /\ ScopeStackSize(st.procedure.procedure) = 0
                THEN FinishProcedure(st, cenv)
                ELSE LET Fed(read) ==
                             IF ~IsOk(read) THEN read
                             ELSE Next2([st EXCEPT !.procedure.procedure = read.v], cenv)
                     IN  Fed(BuilderRead(st.procedure.procedure, token))

\* Compiler::read: the read of the current state.
CompilerRead(st, cenv, token) ==
    CASE st.kind = "Base" -> BaseRead(st, cenv, token)
      [] st.kind = "Import" -> ImportRead(st, cenv, token)
      [] st.kind = "Module" -> ModuleRead(st, cenv, token)
      [] st.kind = "Decorator" -> DecoratorRead(st, cenv, token)
      [] st.kind = "Procedure" -> ProcedureRead(st, cenv, token)
      [] st.kind = "Struct" -> StructRead(st, cenv, token)

-----------------------------------------------------------------------------
(* Values that own heap cells (runtime.rs) *)

\* A Value::Struct is an Rc<RefCell<Option<Struct>>>: the value holds the number
\* of a cell of `heap`, a cell is live while its Rc has an owner, and its obj is
\* None once the struct was moved out of it.  A Value::StructRef is a Weak to
\* the same cell.  Cells are numbered from 1 in allocation order.
Cell(live, obj) == [live |-> live, obj |-> obj]

\* Rc::new(RefCell::new(obj)): the heap with one more cell; its number is the new length.
Alloc(heap, obj) == Append(heap, Cell(TRUE, obj))

\* What a runtime operation returns: a value or an error message, and the heap
\* as the operation left it.
RtOk(v, heap) == [r |-> "Ok", v |-> v, heap |-> heap]
RtErr(msg, heap) == [r |-> "Err", v |-> msg, heap |-> heap]
RtPanic(msg, heap) == [r |-> "Panic", v |-> msg, heap |-> heap]

\* The keys of a map in a fixed order (HashMap iteration order is unspecified;
\* the operations folded over it below do not depend on it).
RECURSIVE KeysOf(_)
KeysOf(keys) ==
    IF keys = {} THEN <<>>
    ELSE LET key == CHOOSE k \in keys : TRUE
         IN  <<key>> \o KeysOf(keys \ {key})

\* Faulty variant of Drop for Value: the cell outlives its owner.
DropValueLeaks(value, heap) == heap

\* Drop for Value: dropping the owner of a cell frees the cell and drops what
\* the struct in it owns; a StructRef owns nothing.
RECURSIVE DropValue(_, _)
RECURSIVE DropAll(_, _)
DropAll(values, heap) ==
    IF values = <<>> THEN heap
    ELSE DropAll(Tail(values), DropValue(Head(values), heap))
DropValue(value, heap) ==
    CASE value.tag = "Struct" ->
            LET obj == heap[value.i].obj
                freed == [heap EXCEPT ![value.i] = Cell(FALSE, None)]
            IN  IF ~IsSome(obj) THEN freed
                ELSE LET members == Unwrap(obj).members
                         keys == KeysOf(DOMAIN members)
                     IN  DropAll([n \in 1..Len(keys) |-> members[keys[n]].value], freed)
      [] value.tag = "Array" -> DropAll(value.e, heap)
      [] OTHER -> heap

\* Clone for Value (runtime.rs 46-66): a Struct is copied into a new cell,
\* member by member; a StructRef is copied as the same Weak.
\* A clone that copies the value as it is: a Struct element keeps its cell.
CloneValueShallow(value, heap) == [v |-> value, heap |-> heap]

RECURSIVE CloneValue(_, _)
RECURSIVE CloneAll(_, _, _)
RECURSIVE CloneMembers(_, _, _, _)
CloneAll(values, cloned, heap) ==
    IF values = <<>> THEN [v |-> cloned, heap |-> heap]
    ELSE LET first == CloneValue(Head(values), heap)
         IN  CloneAll(Tail(values), Append(cloned, first.v), first.heap)
CloneMembers(members, keys, cloned, heap) ==
    IF keys = <<>> THEN [v |-> cloned, heap |-> heap]
    ELSE LET first == CloneValue(members[Head(keys)].value, heap)
         IN  CloneMembers(members, Tail(keys),
                          [cloned EXCEPT ![Head(keys)].value = first.v], first.heap)
CloneValue(value, heap) ==
    CASE value.tag = "Struct" ->
            LET obj == heap[value.i].obj
            IN  IF ~IsSome(obj)
                THEN [v |-> Struct(Len(heap) + 1), heap |-> Alloc(heap, None)]
                ELSE LET members == Unwrap(obj).members
                         cloned == CloneMembers(members, KeysOf(DOMAIN members),
                                                members, heap)
                         copy == [Unwrap(obj) EXCEPT !.members = cloned.v]
                     IN  [v |-> Struct(Len(cloned.heap) + 1),
                          heap |-> Alloc(cloned.heap, Some(copy))]
      [] value.tag = "Array" ->
            LET cloned == CloneAll(value.e, <<>>, heap)
            IN  [v |-> Array(cloned.v), heap |-> cloned.heap]
      [] OTHER -> [v |-> value, heap |-> heap]

\* Faulty variant of the choice between get_member and get_public_member:
\* get_member whatever the module.
AccessMemberUnguarded(obj, ident, contained_module_id) ==
    IF ident \notin DOMAIN obj.members THEN Err("No member labeled!")
    ELSE Ok(obj.members[ident].value)

\* MemberMap::get_member and get_public_member, chosen as Value::query,
\* Value::set and the others choose between them: by comparing the module of
\* the struct with contained_module_id.
AccessMember(obj, ident, contained_module_id) ==
    IF ident \notin DOMAIN obj.members THEN Err("No member labeled!")
    ELSE IF obj.struct_id.module_id = contained_module_id THEN Ok(obj.members[ident].value)
    ELSE IF obj.members[ident].is_public THEN Ok(obj.members[ident].value)
    ELSE Err("Tried to access a private field!")

IsScalar(value) == value.tag \in {"Null", "Integer", "Float", "String", "Char", "Bool"}

\* Value::query.  `borrowed` is the set of cells whose RefCell is borrowed by
\* the enclosing steps of the walk.
RECURSIVE Query(_, _, _, _, _)
QueryMember(cell, address, contained_module_id, heap, borrowed) ==
    LET addressant == Head(address)
    IN  IF addressant.ad # "Identifier"
        THEN RtErr("Structs only accept identifier addressants.", heap)
        ELSE IF ~IsSome(heap[cell].obj) THEN RtErr("Use of moved value!", heap)
        ELSE LET member == AccessMember(Unwrap(heap[cell].obj), addressant.v,
                                        contained_module_id)
             IN  IF ~IsOk(member) THEN RtErr(member.v, heap)
                 ELSE Query(member.v, Tail(address), contained_module_id, heap,
                            borrowed \cup {cell})
\* A query whose move of a struct leaves the values of its fields behind: the
\* struct arrives with every field Null.
QueryForgets(value, address, contained_module_id, heap, borrowed) ==
    IF address # <<>> THEN
        CASE IsScalar(value) -> RtErr("Value doesnt acceppt addressant", heap)
          [] value.tag = "Array" ->
                IF Head(address).ad = "Index" THEN
                    IF Head(address).v < Len(value.e)
                    THEN Query(value.e[Head(address).v + 1], Tail(address),
                               contained_module_id, heap, borrowed)
                    ELSE RtErr("Index out of bounds!", heap)
                ELSE RtErr("Arrays only accept indexing addressants.", heap)
          [] value.tag = "Struct" ->
                QueryMember(value.i, address, contained_module_id, heap, borrowed)
          [] value.tag = "StructRef" ->
                IF Head(address).ad = "Identifier" /\ ~heap[value.i].live
                THEN RtErr("Use of dropped value!", heap)
                ELSE QueryMember(value.i, address, contained_module_id, heap, borrowed)
    ELSE IF value.tag = "Struct" THEN
        IF ~IsSome(heap[value.i].obj) THEN RtErr("Use of moved value!", heap)
        ELSE IF value.i \in borrowed THEN RtPanic("already borrowed: BorrowMutError", heap)
        ELSE LET moved == [heap EXCEPT ![value.i].obj = None]
                 struct == Unwrap(heap[value.i].obj)
                 blank == [struct EXCEPT !.members =
                              [key \in DOMAIN struct.members |->
                                  [struct.members[key] EXCEPT !.value = Null]]]
             IN  RtOk(Struct(Len(heap) + 1), Alloc(moved, Some(blank)))
    ELSE LET cloned == CloneValue(value, heap)
         IN  RtOk(cloned.v, cloned.heap)

\* Faulty variant of Value::query: a struct read with no addressant is copied,
\* not moved.
QueryCopies(value, address, contained_module_id, heap, borrowed) ==
    IF address # <<>> THEN
        CASE IsScalar(value) -> RtErr("Value doesnt acceppt addressant", heap)
          [] value.tag = "Array" ->
                IF Head(address).ad = "Index" THEN
                    IF Head(address).v < Len(value.e)
                    THEN Query(value.e[Head(address).v + 1], Tail(address),
                               contained_module_id, heap, borrowed)
                    ELSE RtErr("Index out of bounds!", heap)
                ELSE RtErr("Arrays only accept indexing addressants.", heap)
          [] value.tag = "Struct" ->
                QueryMember(value.i, address, contained_module_id, heap, borrowed)
          [] value.tag = "StructRef" ->
                IF Head(address).ad = "Identifier" /\ ~heap[value.i].live
                THEN RtErr("Use of dropped value!", heap)
                ELSE QueryMember(value.i, address, contained_module_id, heap, borrowed)
    ELSE IF value.tag = "Struct" /\ ~IsSome(heap[value.i].obj)
    THEN RtErr("Use of moved value!", heap)
    ELSE LET cloned == CloneValue(value, heap)
         IN  RtOk(cloned.v, cloned.heap)
Query(value, address, contained_module_id, heap, borrowed) ==
    IF address # <<>> THEN
        CASE IsScalar(value) -> RtErr("Value doesnt acceppt addressant", heap)
          [] value.tag = "Array" ->
                IF Head(address).ad = "Index" THEN
                    IF Head(address).v < Len(value.e)
                    THEN Query(value.e[Head(address).v + 1], Tail(address),
                               contained_module_id, heap, borrowed)
                    ELSE RtErr("Index out of bounds!", heap)
                ELSE RtErr("Arrays only accept indexing addressants.", heap)
          [] value.tag = "Struct" ->
                QueryMember(value.i, address, contained_module_id, heap, borrowed)
          [] value.tag = "StructRef" ->
                IF Head(address).ad = "Identifier" /\ ~heap[value.i].live
                THEN RtErr("Use of dropped value!", heap)
                ELSE QueryMember(value.i, address, contained_module_id, heap, borrowed)
    ELSE IF value.tag = "Struct" THEN
        IF ~IsSome(heap[value.i].obj) THEN RtErr("Use of moved value!", heap)
        ELSE IF value.i \in borrowed THEN RtPanic("already borrowed: BorrowMutError", heap)
        ELSE LET moved == [heap EXCEPT ![value.i].obj = None]
             IN  RtOk(Struct(Len(heap) + 1), Alloc(moved, heap[value.i].obj))
    ELSE LET cloned == CloneValue(value, heap)
         IN  RtOk(cloned.v, cloned.heap)

\* Value::reference: with an addressant it walks exactly as query does (the
\* branches recurse into query); without one it makes a Weak to an owned struct.
Reference(value, address, contained_module_id, heap) ==
    IF address # <<>> THEN Query(value, address, contained_module_id, heap, {})
    ELSE IF value.tag = "Struct" THEN
        IF ~IsSome(heap[value.i].obj) THEN RtErr("Use of moved value!", heap)
        ELSE RtOk(StructRef(value.i), heap)
    ELSE RtErr("Can only reference owned structs.", heap)

\* Value::clone_variable: with an addressant it walks exactly as query does.
CloneVariable(value, address, contained_module_id, heap) ==
    IF address # <<>> THEN Query(value, address, contained_module_id, heap, {})
    ELSE IF value.tag = "StructRef" THEN
        IF ~heap[value.i].live THEN RtErr("Clone of dropped value", heap)
        ELSE LET cloned == CloneValue(Struct(value.i), heap)
             IN  RtOk(cloned.v, cloned.heap)
    ELSE LET cloned == CloneValue(value, heap)
         IN  RtOk(cloned.v, cloned.heap)

\* Drop for Value while Value::set is at work.  The cells in held are the
\* ones the set has passed through; one reached through a StructRef is kept
\* by the upgraded Rc, so dropping its owner takes the owner away (live
\* FALSE) and leaves the struct in the cell, with all it owns, in place.
RECURSIVE DropHeld(_, _, _)
RECURSIVE DropAllHeld(_, _, _)
DropAllHeld(values, heap, held) ==
    IF values = <<>> THEN heap
    ELSE DropAllHeld(Tail(values), DropHeld(Head(values), heap, held), held)
DropHeld(value, heap, held) ==
    IF held = {} THEN DropValue(value, heap)
    ELSE CASE value.tag = "Struct" ->
                IF value.i \in held THEN [heap EXCEPT ![value.i].live = FALSE]
                ELSE LET obj == heap[value.i].obj
                         freed == [heap EXCEPT ![value.i] = Cell(FALSE, None)]
                     IN  IF ~IsSome(obj) THEN freed
                         ELSE LET members == Unwrap(obj).members
                                  keys == KeysOf(DOMAIN members)
                              IN  DropAllHeld([n \in 1..Len(keys) |->
                                                  members[keys[n]].value], freed, held)
           [] value.tag = "Array" -> DropAllHeld(value.e, heap, held)
           [] OTHER -> heap

\* Value::set.  The result carries the value that now stands where `value`
\* stood.  On every error path the value that was to be stored is dropped.
\* The StructRef arm keeps the Rc it upgraded until it returns: the member is
\* assigned also when the set below has dropped the owner of the cell, and
\* the cell is freed, with what the struct then owns, as the Rc goes.
RECURSIVE SetValue(_, _, _, _, _, _)
SetMember(holder, cell, address, contained_module_id, new_value, heap, borrowed) ==
    LET addressant == Head(address)
        failed(msg) == RtErr(msg, DropValue(new_value, heap))
    IN  IF addressant.ad # "Identifier"
        THEN failed("Structs only accept identifier addressants.")
        ELSE IF cell \in borrowed
        THEN RtPanic("already borrowed: BorrowMutError", DropValue(new_value, heap))
        ELSE IF ~IsSome(heap[cell].obj) THEN failed("Use of moved value!")
        ELSE LET member == AccessMember(Unwrap(heap[cell].obj), addressant.v,
                                        contained_module_id)
             IN  IF ~IsOk(member) THEN failed(member.v)
                 ELSE LET set == SetValue(member.v, Tail(address), contained_module_id,
                                          new_value, heap, borrowed \cup {cell})
                          Assigned(assigned) ==
                              IF holder.tag = "StructRef" /\ ~assigned[cell].live
                              THEN DropHeld(Struct(cell), assigned, borrowed)
                              ELSE assigned
                      IN  IF set.r # "Ok" THEN set
                          ELSE RtOk(holder,
                                    Assigned([set.heap EXCEPT ![cell].obj =
                                        Some([Unwrap(set.heap[cell].obj) EXCEPT
                                                 !.members[addressant.v].value = set.v])]))
SetValue(value, address, contained_module_id, new_value, heap, borrowed) ==
    IF address = <<>> THEN RtOk(new_value, DropHeld(value, heap, borrowed))
    ELSE CASE IsScalar(value) ->
                RtErr("Value doesnt acceppt addressant", DropValue(new_value, heap))
           [] value.tag = "Array" ->
                IF Head(address).ad = "Index" THEN
                    IF Head(address).v < Len(value.e)
                    THEN LET set == SetValue(value.e[Head(address).v + 1], Tail(address),
                                             contained_module_id, new_value, heap, borrowed)
                         IN  IF set.r # "Ok" THEN set
                             ELSE RtOk([value EXCEPT !.e[Head(address).v + 1] = set.v],
                                       set.heap)
                    ELSE RtErr("Index out of bounds!", DropValue(new_value, heap))
                ELSE RtErr("Arrays only accept indexing addressants.",
                           DropValue(new_value, heap))
           [] value.tag = "Struct" ->
                SetMember(value, value.i, address, contained_module_id, new_value, heap,
                          borrowed)
           [] value.tag = "StructRef" ->
                IF Head(address).ad = "Identifier" /\ ~heap[value.i].live
                THEN RtErr("Use of dropped value!", DropValue(new_value, heap))
                ELSE SetMember(value, value.i, address, contained_module_id, new_value,
                               heap, borrowed)

-----------------------------------------------------------------------------
(* Scope, environment and expression evaluation (runtime/scope.rs,
   runtime/environment.rs, runtime/expressions.rs) *)

\* A search from the first frame up: the outermost frame that holds the
\* identifier.
FrameOfOutermost(stack, identifier, i) ==
    LET holding == {n \in 1..i : identifier \in DOMAIN stack[n]}
    IN  IF holding = {} THEN 0 ELSE CHOOSE n \in holding : \A m \in holding : n <= m

\* The frame of a Stack that holds an identifier, searching from the last
\* frame down (Stack::get, Stack::get_mut, Stack::set); 0 when none does.
RECURSIVE FrameOf(_, _, _)
FrameOf(stack, identifier, i) ==
    IF i = 0 THEN 0
    ELSE IF identifier \in DOMAIN stack[i] THEN i
    ELSE FrameOf(stack, identifier, i - 1)

\* Every value held by the frames of a stack, for dropping them.
RECURSIVE StackValues(_)
StackValues(stack) ==
    IF stack = <<>> THEN <<>>
    ELSE LET frame == Head(stack)
             keys == KeysOf(DOMAIN frame)
         IN  [n \in 1..Len(keys) |-> frame[keys[n]]] \o StackValues(Tail(stack))

\* A subenvironment that goes on in the scope of the caller.
OpenSubenvironmentInScope(environment, new_scope, module_address) ==
    [contained_module_id |-> module_address.module_id,
     loaded_modules |-> environment.loaded_modules,
     scope |-> environment.scope]

\* Environment::open_subenvironment
OpenSubenvironment(environment, new_scope, module_address) ==
    [contained_module_id |-> module_address.module_id,
     loaded_modules |-> environment.loaded_modules,
     scope |-> new_scope]

\* Module::get_procedure and Module::get_struct
\* A get_procedure that does not look at the export flag.
GetProcedureOpen(module, identifier, private_access) ==
    IF identifier \notin DOMAIN module.procedures
    THEN Err("Procedure not defined in this module!")
    ELSE Ok(module.procedures[identifier].procedure)
GetProcedure(module, identifier, private_access) ==
    IF identifier \notin DOMAIN module.procedures
    THEN Err("Procedure not defined in this module!")
    ELSE IF module.procedures[identifier].exported \/ private_access
    THEN Ok(module.procedures[identifier].procedure)
    ELSE Err("Procedure is not exported by this module!")
\* A get_struct that hands out a bare Struct::new(struct_id) instead of a
\* clone of the prototype.
GetStructBare(module, identifier, private_access) ==
    IF identifier \notin DOMAIN module.struct_prototypes
    THEN Err("Struct not defined in this module!")
    ELSE Ok(StructNew(module.struct_prototypes[identifier].prototype.struct_id))
GetStruct(module, identifier, private_access) ==
    IF identifier \notin DOMAIN module.struct_prototypes
    THEN Err("Struct not defined in this module!")
    ELSE IF module.struct_prototypes[identifier].exported \/ private_access
    THEN Ok(module.struct_prototypes[identifier].prototype)
    ELSE Err("Struct is not exported by this module!")

\* Environment::get_procedure_by_address and Environment::get_struct_by_address
GetProcedureByAddress(environment, address) ==
    IF address.module_id \notin DOMAIN environment.loaded_modules
    THEN Err("Module not loaded in this environment!")
    ELSE GetProcedure(environment.loaded_modules[address.module_id], address.identifier,
                      address.module_id = environment.contained_module_id)
GetStructByAddress(environment, address) ==
    IF address.module_id \notin DOMAIN environment.loaded_modules
    THEN Err("Module not loaded in this environment!")
    ELSE GetStruct(environment.loaded_modules[address.module_id], address.identifier,
                   address.module_id = environment.contained_module_id)

\* PartialEq for Value (runtime.rs 68-84)
RECURSIVE ValueEq(_, _, _)
CellEq(a, b, heap) ==
    LET l == heap[a].obj
        r == heap[b].obj
    IN  IF ~IsSome(l) \/ ~IsSome(r) THEN IsSome(l) = IsSome(r)
        ELSE /\ Unwrap(l).struct_id = Unwrap(r).struct_id
             /\ DOMAIN Unwrap(l).members = DOMAIN Unwrap(r).members
             /\ \A key \in DOMAIN Unwrap(l).members :
                    /\ Unwrap(l).members[key].is_public = Unwrap(r).members[key].is_public
                    /\ ValueEq(Unwrap(l).members[key].value, Unwrap(r).members[key].value, heap)
ValueEq(lhs, rhs, heap) ==
    IF lhs.tag # rhs.tag THEN FALSE
    ELSE CASE lhs.tag = "Null" -> TRUE
           [] lhs.tag = "Integer" -> lhs.i = rhs.i
           [] lhs.tag = "Float" ->
                IF lhs.d = 0 \/ rhs.d = 0
                THEN lhs.d = rhs.d /\ lhs.i = rhs.i /\ lhs.i # 0
                ELSE lhs.i * rhs.d = rhs.i * lhs.d
           [] lhs.tag \in {"String", "Char"} -> lhs.s = rhs.s
           [] lhs.tag = "Bool" -> lhs.b = rhs.b
           [] lhs.tag = "Array" ->
                /\ Len(lhs.e) = Len(rhs.e)
                /\ \A n \in 1..Len(lhs.e) : ValueEq(lhs.e[n], rhs.e[n], heap)
           [] lhs.tag = "Struct" -> CellEq(lhs.i, rhs.i, heap)
           [] lhs.tag = "StructRef" ->
                IF ~heap[lhs.i].live \/ ~heap[rhs.i].live
                THEN heap[lhs.i].live = heap[rhs.i].live
                ELSE CellEq(lhs.i, rhs.i, heap)

\* i64 arithmetic: an overflow panics when overflow checks are compiled in
\* and wraps otherwise.
WrapI64(n) == ((n - I64Min) % (2 ^ I64Bits)) + I64Min
I64Result(n, heap) ==
    IF n >= I64Min /\ n <= I64Max THEN RtOk(Integer(n), heap)
    ELSE IF overflow_checks THEN RtPanic("arithmetic overflow", heap)
    ELSE RtOk(Integer(WrapI64(n)), heap)

\* l / r on i64: the quotient rounded towards zero.  A divisor of zero and
\* the quotient of i64::MIN by -1 panic in every build.
DivideI64(l, r, heap) ==
    LET Magnitude(n) == IF n < 0 THEN 0 - n ELSE n
        quotient == Magnitude(l) \div Magnitude(r)
    IN  IF r = 0 THEN RtPanic("attempt to divide by zero", heap)
        ELSE IF l = I64Min /\ r = 0 - 1 THEN RtPanic("attempt to divide with overflow", heap)
        ELSE RtOk(Integer(IF (l < 0) = (r < 0) THEN quotient ELSE 0 - quotient), heap)

\* l.rem_euclid(r) on i64: the remainder that is not negative.  It starts
\* with l % r, which panics for a divisor of zero and for i64::MIN % -1.
RemEuclidI64(l, r, heap) ==
    IF r = 0
    THEN RtPanic("attempt to calculate the remainder with a divisor of zero", heap)
    ELSE IF l = I64Min /\ r = 0 - 1
    THEN RtPanic("attempt to calculate the remainder with overflow", heap)
    ELSE RtOk(Integer(l % (IF r < 0 THEN 0 - r ELSE r)), heap)

\* The match on the two operand values of the binary expressions modelled
\* here: Add, Subtract, Multiply, Divide, Modulo and GreaterThan on Integers,
\* Add on Strings, And, Or, Equality.  Both operands are consumed.
ApplyBinary(kind, lhs, rhs, heap) ==
    LET dropped == DropValue(rhs, DropValue(lhs, heap))
    IN  CASE kind = "Equality" -> RtOk(Bool(ValueEq(lhs, rhs, heap)), dropped)
          [] kind \in {"And", "Or"} ->
                IF lhs.tag = "Bool" /\ rhs.tag = "Bool"
                THEN RtOk(Bool(IF kind = "And" THEN lhs.b /\ rhs.b ELSE lhs.b \/ rhs.b), dropped)
                ELSE RtErr("Cannot perform boolean operation!", dropped)
          [] kind = "Add" /\ lhs.tag = "String" /\ rhs.tag = "String" ->
                RtOk(String(lhs.s \o rhs.s), dropped)
          [] kind \in {"Add", "Subtract", "Multiply", "GreaterThan"}
             /\ lhs.tag = "Integer" /\ rhs.tag = "Integer" ->
                (CASE kind = "Add" -> I64Result(lhs.i + rhs.i, dropped)
                   [] kind = "Subtract" -> I64Result(lhs.i - rhs.i, dropped)
                   [] kind = "Multiply" -> I64Result(lhs.i * rhs.i, dropped)
                   [] kind = "GreaterThan" -> RtOk(Bool(lhs.i > rhs.i), dropped))
          [] kind = "Divide" /\ lhs.tag = "Integer" /\ rhs.tag = "Integer" ->
                DivideI64(lhs.i, rhs.i, dropped)
          [] kind = "Modulo" /\ lhs.tag = "Integer" /\ rhs.tag = "Integer" ->
                RemEuclidI64(lhs.i, rhs.i, dropped)
          [] kind \in {"Add", "Subtract", "Multiply", "GreaterThan", "Divide", "Modulo"}
             /\ {lhs.tag, rhs.tag} \cap {"Float", "String"} = {} ->
                RtErr("Cannot apply the operator to these types!", dropped)

\* Faulty variant of the zip: the identifiers are paired with the arguments
\* taken from the last one back.
ZipMembersReversed(arguments_identifiers, arguments, members, heap) ==
    [v |-> [identifier \in {arguments_identifiers[n] : n \in 1..Len(arguments_identifiers)} |->
                arguments[Len(arguments) + 1
                          - (CHOOSE n \in 1..Len(arguments_identifiers) :
                                arguments_identifiers[n] = identifier)]],
     heap |-> heap]

\* A zip that binds the identifiers the arguments do not reach to Null.
RECURSIVE ZipMembersPadded(_, _, _, _)
ZipMembersPadded(arguments_identifiers, arguments, members, heap) ==
    IF arguments_identifiers = <<>>
    THEN [v |-> members, heap |-> DropAll(arguments, heap)]
    ELSE ZipMembersPadded(Tail(arguments_identifiers),
                          IF arguments = <<>> THEN <<>> ELSE Tail(arguments),
                          MapInsert(members, Head(arguments_identifiers),
                                    IF arguments = <<>> THEN Null ELSE Head(arguments)),
                          heap)

\* HashMap::from_iter over the zip of the argument identifiers and the
\* arguments (procedures.rs 48-53): pairs are inserted in order, a repeated
\* identifier keeps its last value, what the zip does not reach is dropped.
RECURSIVE ZipMembers(_, _, _, _)
ZipMembers(arguments_identifiers, arguments, members, heap) ==
    IF arguments_identifiers = <<>> \/ arguments = <<>>
    THEN [v |-> members, heap |-> DropAll(arguments, heap)]
    ELSE LET identifier == Head(arguments_identifiers)
             replaced == IF identifier \in DOMAIN members
                         THEN DropValue(members[identifier], heap) ELSE heap
         IN  ZipMembers(Tail(arguments_identifiers), Tail(arguments),
                        MapInsert(members, identifier, Head(arguments)), replaced)

\* Stack::insert_members: extend the last frame.
RECURSIVE ExtendFrame(_, _, _, _)
ExtendFrame(frame, members, keys, heap) ==
    IF keys = <<>> THEN [v |-> frame, heap |-> heap]
    ELSE ExtendFrame(MapInsert(frame, Head(keys), members[Head(keys)]), members, Tail(keys),
                     IF Head(keys) \in DOMAIN frame
                     THEN DropValue(frame[Head(keys)], heap) ELSE heap)
InsertMembers(environment, members, heap) ==
    LET last == Len(environment.scope)
        extended == ExtendFrame(environment.scope[last], members, KeysOf(DOMAIN members), heap)
    IN  [v |-> [environment EXCEPT !.scope[last] = extended.v], heap |-> extended.heap]

\* size_of::<Value>() in bytes: String and Vec<Value> are variants of three
\* words each, and the discriminant takes a fourth.
ValueSize == 32
\* isize::MAX, the most bytes one allocation may ask for, and the longest
\* Vec<Value> that stays within it.
IsizeMax == 2 ^ (UsizeBits - 1) - 1
ArrayCapacity == IsizeMax \div ValueSize

\* Faulty variant of NewArrayProcedure::call: one element too many.
NewArrayOneMore(arguments, heap) ==
    LET size == IF Len(arguments) > 0 THEN arguments[1] ELSE Integer(0)
        dropped == DropAll(arguments, heap)
    IN  IF size.tag = "Integer" THEN
            IF (size.i % UsizeModulus) * ValueSize > IsizeMax
            THEN RtPanic("capacity overflow", dropped)
            ELSE RtOk(Array([n \in 1..((size.i % UsizeModulus) + 1) |-> Null]), dropped)
        ELSE RtErr("Array size needs to be of type Integer!", dropped)

\* NewArrayProcedure::call and ArraySizeProcedure::call (builtin/arrays.rs).
\* vec![Value::Null; *size as usize] panics when the bytes of the elements
\* exceed isize::MAX: for a size past ArrayCapacity and for every negative
\* size, which the cast turns into a usize of the upper half.
NewArrayProcedureCall(arguments, heap) ==
    LET size == IF Len(arguments) > 0 THEN arguments[1] ELSE Integer(0)
        dropped == DropAll(arguments, heap)
    IN  IF size.tag = "Integer" THEN
            IF (size.i % UsizeModulus) * ValueSize > IsizeMax
            THEN RtPanic("capacity overflow", dropped)
            ELSE RtOk(Array([n \in 1..(size.i % UsizeModulus) |-> Null]), dropped)
        ELSE RtErr("Array size needs to be of type Integer!", dropped)
ArraySizeProcedureCall(arguments, heap) ==
    LET dropped == DropAll(arguments, heap)
    IN  IF arguments = <<>> THEN RtErr("Missing argument!", heap)
        ELSE IF arguments[1].tag = "Array"
        THEN RtOk(Integer(Len(arguments[1].e)), dropped)
        ELSE RtErr("Cannot identify size!", dropped)

\* What executing one instruction returns: how it ended (Ok, Err, Panic, or
\* Return for the Return instruction), the error message or the returned
\* value, and the environment, heap and program counter it left.
Executed(r, message, returned, environment, heap, pc) ==
    [r |-> r, message |-> message, returned |-> returned, environment |-> environment,
     heap |-> heap, pc |-> pc]

RECURSIVE Eval(_, _, _)
RECURSIVE TryBake(_, _, _, _)
RECURSIVE EvalArguments(_, _, _, _)
RECURSIVE EvalFieldOverrides(_, _, _, _)
RECURSIVE ExecuteInstruction(_, _, _, _)
RECURSIVE RunInstructions(_, _, _, _)

\* Faulty variant of ScopeAddress::try_bake: whatever the index expression
\* evaluates to, other than a non-negative Integer, is taken for index 0.
TryBakeLenient(address, out, environment, heap) ==
    IF address = <<>> THEN RtOk(out, heap)
    ELSE LET addressant == Head(address)
         IN  IF addressant.ad # "DynamicIndex"
             THEN TryBake(Tail(address), Append(out, addressant), environment, heap)
             ELSE LET Indexed(value) ==
                          IF value.r # "Ok" THEN value
                          ELSE IF value.v.tag = "Integer" /\ value.v.i >= 0
                          THEN TryBake(Tail(address), Append(out, AddrIndex(value.v.i)),
                                       environment, value.heap)
                          ELSE TryBake(Tail(address), Append(out, AddrIndex(0)), environment,
                                       DropValue(value.v, value.heap))
                  IN  Indexed(Eval(addressant.v, environment, heap))

\* ScopeAddress::try_bake (scope.rs 87-125)
TryBake(address, out, environment, heap) ==
    IF address = <<>> THEN RtOk(out, heap)
    ELSE LET addressant == Head(address)
         IN  IF addressant.ad # "DynamicIndex"
             THEN TryBake(Tail(address), Append(out, addressant), environment, heap)
             ELSE LET Indexed(value) ==
                          IF value.r # "Ok" THEN value
                          ELSE IF value.v.tag = "Integer" THEN
                              IF value.v.i >= 0 /\ value.v.i <= UsizeMax
                              THEN TryBake(Tail(address), Append(out, AddrIndex(value.v.i)),
                                           environment, value.heap)
                              ELSE RtErr("out of range integral type conversion attempted",
                                         value.heap)
                          ELSE RtErr("Mismatched types! Expected Integer!",
                                     DropValue(value.v, value.heap))
                  IN  Indexed(Eval(addressant.v, environment, heap))

\* Scope::query_variable, Scope::reference_variable and Scope::clone_variable
\* after Environment::query_variable and the others baked the address.
ScopeRead(kind, environment, address, heap) ==
    LET cmid == environment.contained_module_id
        Found(value, rest, heap2) ==
            CASE kind = "Variable" -> Query(value, rest, cmid, heap2, {})
              [] kind = "Reference" -> Reference(value, rest, cmid, heap2)
              [] kind = "Clone" -> CloneVariable(value, rest, cmid, heap2)
        InFrame(frame, baked) ==
            IF frame = 0
            THEN RtErr("Could not find the variable in this scope!", baked.heap)
            ELSE Found(environment.scope[frame][Head(baked.v).v], Tail(baked.v), baked.heap)
        Baked(baked) ==
            IF baked.r # "Ok" THEN baked
            ELSE IF Head(baked.v).ad # "Identifier"
            THEN RtErr("Expected variable identifier, found index!", baked.heap)
            ELSE InFrame(FrameOf(environment.scope, Head(baked.v).v, Len(environment.scope)),
                         baked)
    IN  Baked(TryBake(address, <<>>, environment, heap))

\* Environment::set_variable and Scope::set_variable.  Returns Executed with
\* the pc left alone.  Stack::get_mut computes self.0.len() - 1 before it
\* looks for the identifier, so a scope with no frame panics as Stack::push
\* does.
SetVariable(environment, address, new_value, heap, pc) ==
    LET Stored(set, frame, identifier) ==
            IF set.r # "Ok"
            THEN Executed(set.r, set.v, Null, environment, set.heap, pc)
            ELSE Executed("Ok", "", Null,
                          [environment EXCEPT !.scope[frame][identifier] = set.v],
                          set.heap, pc)
        InFrame(frame, identifier, baked) ==
            IF frame = 0
            THEN Executed("Err", "Could not find the variable in this scope!", Null,
                          environment, DropValue(new_value, baked.heap), pc)
            ELSE Stored(SetValue(environment.scope[frame][identifier], Tail(baked.v),
                                 environment.contained_module_id, new_value, baked.heap, {}),
                        frame, identifier)
        Baked(baked) ==
            IF baked.r # "Ok"
            THEN Executed(baked.r, baked.v, Null, environment,
                          DropValue(new_value, baked.heap), pc)
            ELSE IF Head(baked.v).ad # "Identifier"
            THEN Executed("Err", "Expected variable identifier, found index!", Null,
                          environment, DropValue(new_value, baked.heap), pc)
            ELSE IF environment.scope = <<>>
            THEN Executed("Panic",
                          IF overflow_checks THEN "attempt to subtract with overflow"
                          ELSE "index out of bounds",
                          Null, environment, DropValue(new_value, baked.heap), pc)
            ELSE InFrame(FrameOf(environment.scope, Head(baked.v).v, Len(environment.scope)),
                         Head(baked.v).v, baked)
    IN  Baked(TryBake(address, <<>>, environment, heap))

\* The arguments evaluated from the last to the first.
RECURSIVE EvalArgumentsFromRight(_, _, _, _)
EvalArgumentsFromRight(arguments, evaluated, environment, heap) ==
    IF arguments = <<>> THEN RtOk(evaluated, heap)
    ELSE LET Evaluated(value) ==
                 IF value.r # "Ok" THEN [value EXCEPT !.heap = DropAll(evaluated, @)]
                 ELSE EvalArgumentsFromRight(SubSeq(arguments, 1, Len(arguments) - 1),
                                             <<value.v>> \o evaluated, environment, value.heap)
         IN  Evaluated(Eval(arguments[Len(arguments)], environment, heap))

\* The arguments of ProcedureCallExpression::eval, evaluated in order; an
\* error drops the arguments already evaluated.
EvalArguments(arguments, evaluated, environment, heap) ==
    IF arguments = <<>> THEN RtOk(evaluated, heap)
    ELSE LET Evaluated(value) ==
                 IF value.r # "Ok" THEN [value EXCEPT !.heap = DropAll(evaluated, @)]
                 ELSE EvalArguments(Tail(arguments), Append(evaluated, value.v), environment,
                                    value.heap)
         IN  Evaluated(Eval(Head(arguments), environment, heap))

\* The field_overrides loop of StructConstructionExpression::eval: each value
\* replaces the member through set_member, which checks no visibility.
EvalFieldOverrides(field_overrides, instance, environment, heap) ==
    IF field_overrides = <<>> THEN RtOk(instance, heap)
    ELSE LET field == Head(field_overrides)[1]
             members == instance.members
             Owned(keys) == [n \in 1..Len(keys) |-> members[keys[n]].value]
             Evaluated(value, owned) ==
                 IF value.r # "Ok" THEN [value EXCEPT !.heap = DropAll(owned, @)]
                 ELSE IF field \notin DOMAIN members
                 THEN RtErr("No member labeled!",
                            DropAll(owned, DropValue(value.v, value.heap)))
                 ELSE EvalFieldOverrides(Tail(field_overrides),
                          [instance EXCEPT !.members[field].value = value.v], environment,
                          DropValue(members[field].value, value.heap))
         IN  Evaluated(Eval(Head(field_overrides)[2], environment, heap),
                       Owned(KeysOf(DOMAIN members)))

\* Procedure::call for the procedures modelled: CompiledProcedure::call
\* (procedures.rs 43-113) and the two procedures of Arrays.  The environment
\* is consumed: what its frames hold is dropped when the call returns.
CallProcedure(procedure, environment, arguments, heap) ==
    CASE procedure.kind = "Compiled" ->
            LET Left(ran, left) ==
                    IF ran.r \in {"Ok", "Return"} THEN RtOk(ran.returned, left)
                    ELSE [r |-> ran.r, v |-> ran.message, heap |-> left]
                Ran(ran) == Left(ran, DropAll(StackValues(ran.environment.scope), ran.heap))
                Inserted(inserted) ==
                    Ran(RunInstructions(procedure.instructions, inserted.v, inserted.heap, 0))
                Zipped(members) ==
                    Inserted(InsertMembers(environment, members.v, members.heap))
            IN  Zipped(ZipMembers(procedure.arguments_identifiers, arguments, EmptyMap, heap))
      [] procedure.kind = "NewArrayProcedure" -> NewArrayProcedureCall(arguments, heap)
      [] procedure.kind = "ArraySizeProcedure" -> ArraySizeProcedureCall(arguments, heap)

\* Expression::eval for the expressions modelled.
Eval(expression, environment, heap) ==
    CASE expression.x = "Value" ->
            LET Cloned(cloned) == RtOk(cloned.v, cloned.heap)
            IN  Cloned(CloneValue(expression.v, heap))
      [] expression.x \in {"Variable", "Reference", "Clone"} ->
            ScopeRead(expression.x, environment, expression.v, heap)
      [] expression.x = "Not" ->
            LET Negated(value) ==
                    IF value.r # "Ok" THEN value
                    ELSE IF value.v.tag = "Bool" THEN RtOk(Bool(~value.v.b), value.heap)
                    ELSE RtErr("Cannot perform boolean nor operation!",
                               DropValue(value.v, value.heap))
            IN  Negated(Eval(expression.v, environment, heap))
      [] expression.x = "ProcedureCall" ->
            LET Called(procedure, arguments) ==
                    IF arguments.r # "Ok" THEN arguments
                    ELSE CallProcedure(procedure.v,
                             OpenSubenvironment(environment, StackNew,
                                                expression.v.procedure_id),
                             arguments.v, arguments.heap)
                Looked(procedure) ==
                    IF ~IsOk(procedure) THEN RtErr(procedure.v, heap)
                    ELSE Called(procedure,
                                EvalArguments(expression.v.arguments, <<>>, environment, heap))
            IN  Looked(GetProcedureByAddress(environment, expression.v.procedure_id))
      [] expression.x = "StructConstruction" ->
            LET Constructed(instance) ==
                    IF instance.r # "Ok" THEN instance
                    ELSE RtOk(Struct(Len(instance.heap) + 1),
                              Alloc(instance.heap, Some(instance.v)))
                Looked(prototype) ==
                    IF ~IsOk(prototype) THEN RtErr(prototype.v, heap)
                    ELSE Constructed(EvalFieldOverrides(expression.v.field_overrides,
                                                        prototype.v, environment, heap))
            IN  Looked(GetStructByAddress(environment, expression.v.struct_id))
      [] OTHER ->
            LET Applied(lhs, rhs) ==
                    IF rhs.r # "Ok" THEN [rhs EXCEPT !.heap = DropValue(lhs.v, @)]
                    ELSE ApplyBinary(expression.x, lhs.v, rhs.v, rhs.heap)
                Left(lhs) ==
                    IF lhs.r # "Ok" THEN lhs
                    ELSE Applied(lhs, Eval(expression.v[2], environment, lhs.heap))
            IN  Left(Eval(expression.v[1], environment, heap))

\* A push that looks for the identifier in every frame of the stack.
StackPushUnlessBound(stack, identifier, value, heap) ==
    IF stack = <<>>
    THEN [r |-> "Panic",
          message |-> IF overflow_checks THEN "attempt to subtract with overflow"
                      ELSE "index out of bounds",
          stack |-> stack, heap |-> heap]
    ELSE IF FrameOf(stack, identifier, Len(stack)) # 0
    THEN [r |-> "Err", message |-> "Variable already present in this scope!",
          stack |-> stack, heap |-> heap]
    ELSE [r |-> "Ok", message |-> "",
          stack |-> [stack EXCEPT ![Len(stack)] = MapInsert(@, identifier, value)],
          heap |-> heap]

\* Stack::push: HashMap::insert into the last frame, which replaces (and
\* drops) the value bound before also when the push fails for it.  With no
\* frame left, self.0.len() - 1 overflows: a panic of its own where overflow
\* is checked, and an index past the end where it wraps.
StackPush(stack, identifier, value, heap) ==
    LET last == Len(stack)
    IN  IF stack = <<>>
        THEN [r |-> "Panic",
              message |-> IF overflow_checks THEN "attempt to subtract with overflow"
                          ELSE "index out of bounds",
              stack |-> stack, heap |-> heap]
        ELSE IF identifier \in DOMAIN stack[last]
        THEN [r |-> "Err", message |-> "Variable already present in this scope!",
              stack |-> [stack EXCEPT ![last][identifier] = value],
              heap |-> DropValue(stack[last][identifier], heap)]
        ELSE [r |-> "Ok", message |-> "",
              stack |-> [stack EXCEPT ![last] = MapInsert(@, identifier, value)],
              heap |-> heap]

\* One turn of the loop of CompiledProcedure::call: the arm of the instruction.
ExecuteInstruction(instruction, environment, heap, pc) ==
    LET scope == environment.scope
        last == Len(scope)
    IN  CASE instruction.op = "PushVarToScope" ->
                LET Pushed(pushed) ==
                        Executed(pushed.r, pushed.message, Null,
                                 [environment EXCEPT !.scope = pushed.stack], pushed.heap,
                                 IF pushed.r = "Ok" THEN pc + 1 ELSE pc)
                IN  Pushed(StackPush(scope, instruction.identifier, Null, heap))
          [] instruction.op = "PopVarFromScope" ->
                IF scope = <<>>
                THEN Executed("Panic",
                              IF overflow_checks THEN "attempt to subtract with overflow"
                              ELSE "index out of bounds",
                              Null, environment, heap, pc)
                ELSE IF instruction.identifier \notin DOMAIN scope[last]
                THEN Executed("Err", "Variable cannot be popped from the stack!", Null,
                              environment, heap, pc)
                ELSE Executed("Ok", "", Null,
                         [environment EXCEPT !.scope[last] =
                             [k \in DOMAIN @ \ {instruction.identifier} |-> @[k]]],
                         DropValue(scope[last][instruction.identifier], heap), pc + 1)
          [] instruction.op = "GrowStack" ->
                Executed("Ok", "", Null, [environment EXCEPT !.scope = Append(@, EmptyMap)],
                         heap, pc + 1)
          [] instruction.op = "ShrinkStack" ->
                IF scope = <<>> THEN Executed("Ok", "", Null, environment, heap, pc + 1)
                ELSE Executed("Ok", "", Null, [environment EXCEPT !.scope = Front(@)],
                              DropAll(StackValues(<<scope[last]>>), heap), pc + 1)
          [] OTHER ->
                \* EvaluateExpression, JumpConditional and Return start by
                \* evaluating their expression; an error ends the call.
                LET Stored(set) == IF set.r # "Ok" THEN set ELSE [set EXCEPT !.pc = pc + 1]
                    Evaluated(value) ==
                        IF value.r # "Ok"
                        THEN Executed(value.r, value.v, Null, environment, value.heap, pc)
                        ELSE CASE instruction.op = "EvaluateExpression" ->
                                    IF ~IsSome(instruction.target)
                                    THEN Executed("Ok", "", Null, environment,
                                                  DropValue(value.v, value.heap), pc + 1)
                                    ELSE Stored(SetVariable(environment,
                                                    Unwrap(instruction.target), value.v,
                                                    value.heap, pc))
                               [] instruction.op = "JumpConditional" ->
                                    IF value.v.tag # "Bool"
                                    THEN Executed("Err", "Expected Bool!", Null, environment,
                                                  DropValue(value.v, value.heap), pc)
                                    ELSE Executed("Ok", "", Null, environment, value.heap,
                                                  IF value.v.b THEN instruction.jump_target
                                                  ELSE pc + 1)
                               [] instruction.op = "Return" ->
                                    Executed("Return", "", value.v, environment, value.heap,
                                             pc)
                IN  Evaluated(Eval(instruction.expression, environment, heap))

\* The loop of CompiledProcedure::call from pc on: falling off the end returns Null.
RunInstructions(instructions, environment, heap, pc) ==
    IF pc >= Len(instructions) THEN Executed("Ok", "", Null, environment, heap, pc)
    ELSE LET Turned(executed) ==
                 IF executed.r # "Ok" THEN executed
                 ELSE RunInstructions(instructions, executed.environment, executed.heap,
                                      executed.pc)
         IN  Turned(ExecuteInstruction(instructions[pc + 1], environment, heap, pc))

-----------------------------------------------------------------------------
(* Compiling: Compiler::read over the tokens of a source text, then
   Compiler::finalize (compiler.rs) *)

\* An EntrypointDecorator::apply that overwrites the entrypoint already set.
RECURSIVE ApplyEntrypointsLastWins(_, _)
ApplyEntrypointsLastWins(decorators, runtime) ==
    IF decorators = <<>> THEN Ok(runtime)
    ELSE ApplyEntrypointsLastWins(Tail(decorators),
                                  [runtime EXCEPT !.entrypoint = Some(Head(decorators))])
\* RuntimeObject::new with base_environement replaced by what the state
\* finalized to, then every decorator applied (Compiler::finalize,
\* EntrypointDecorator::apply).
RECURSIVE ApplyEntrypoints(_, _)
ApplyEntrypoints(decorators, runtime) ==
    IF decorators = <<>> THEN Ok(runtime)
    ELSE IF IsSome(runtime.entrypoint) THEN Err("Duplicate entrypoint!")
    ELSE ApplyEntrypoints(Tail(decorators),
                          [runtime EXCEPT !.entrypoint = Some(Head(decorators))])
\* A finalize that takes the base environment of whatever state is current.
CompilerFinalizeAnywhere(st, cenv) ==
    ApplyEntrypoints(cenv.decorators,
                     [base_environement |-> st.base.environment, entrypoint |-> None])
CompilerFinalize(st, cenv) ==
    IF st.kind # "Base" THEN Err("Unfinished module declaration!")
    ELSE ApplyEntrypoints(cenv.decorators,
                          [base_environement |-> st.base.environment, entrypoint |-> None])

\* Pieces of source text, as the tokens FragmentStream::from_str and
\* Tokenizer::tokenize yield for them.  The heads of the if and of the else
\* begin with the keyword made by the caller.
IntegerLiteral(n) == Literal("Integer", <<n>>)
ModuleHeader == Tokens("module Main {")
ProcHeader == Tokens("proc main() {")
DecoratedProcHeader == Tokens("@entrypoint proc run(a, b) {")
LetStatement == Tokens("let x = 1;")
StructStatement == Tokens("x = Shapes::Point{x: 1};")
IfHead == If \o Tokens("x {")
ElseHead == Else \o Tokens("{")
WhileHead == Tokens("while x {")
BlockEnd == Tokens("}")
UnfinishedReturn == Tokens("return x")

Fragments ==
    <<ModuleHeader \o ProcHeader, ModuleHeader \o DecoratedProcHeader, LetStatement,
      StructStatement, IfHead, ElseHead, WhileHead, BlockEnd, UnfinishedReturn>>

InBody(st) == st.kind = "Procedure" /\ st.procedure.substate = "Instructions"

\* The end of the body as CompilerProcedureState::read decides it
\* (procedure.rs 110-111).
EndsBody(st, token) == token = CurlyClose /\ ScopeStackSize(st.procedure.procedure) = 0

\* History of the braces of the body being read: `depth` counts the braces
\* opened and not yet closed since the brace that opened the body; `closed`
\* says, for the closing brace read last, the depth it was read at, whether
\* the Procedure state took it for the end of the body, and whether the
\* builder was inside a statement.
NoBraces == [depth |-> 0, closed |-> None]
BracesAfter(st, token) ==
    IF ~InBody(st) THEN NoBraces
    ELSE IF token = CurlyOpen THEN [body_braces EXCEPT !.depth = @ + 1]
    ELSE IF token = CurlyClose
    THEN [depth |-> IF body_braces.depth > 0 THEN body_braces.depth - 1 ELSE 0,
          closed |-> Some([depth |-> body_braces.depth,
                           ended |-> EndsBody(st, token),
                           scanning |-> IsScanning(st.procedure.procedure)])]
    ELSE body_braces

\* No expression was handed to the parser.
ParseIdle == parse_input = <<>> /\ parse_output = None
\* No file was read.
LoadIdle == files_read = <<>>
\* No compiled procedure was called.
ExecuteIdle == program_counter = 0
OthersIdle == ParseIdle /\ LoadIdle /\ ExecuteIdle

NothingExecuted == [index |-> 0, r |-> "Ok", message |-> "", returned |-> Null]
NothingBefore == [environment |-> EnvironmentDefault, heap |-> <<>>]

InitCompile ==
    /\ state = CompilerBaseStateNew
    /\ compiler_environment = CompilerEnvironmentNew
    /\ compile_error = None
    /\ runtime_object = None
    /\ pending = <<>>
    /\ fragments_fed = 0
    /\ last_inserted = None
    /\ body_braces = NoBraces
    /\ overflow_checks \in BOOLEAN
    /\ call_environment = EnvironmentDefault
    /\ cells = <<>>
    /\ last_executed = NothingExecuted
    /\ before = NothingBefore
    /\ steps = 0
    /\ running = None
    /\ OthersIdle

\* The caller of Compiler::read takes up the tokens of the next fragment.
Feed ==
    /\ state.kind # "Dropped"
    /\ pending = <<>>
    /\ fragments_fed < MaxFragments
    /\ \E f \in 1..Len(Fragments) : pending' = Fragments[f]
    /\ fragments_fed' = fragments_fed + 1
    /\ UNCHANGED <<state, compiler_environment, compile_error, runtime_object, last_inserted,
                   body_braces, overflow_checks, runtime_vars, other_vars>>

\* Compiler::read on the next token.  An error consumes the compiler.
Read ==
    /\ state.kind # "Dropped"
    /\ pending # <<>>
    /\ LET token == Head(pending)
           Taken(read) ==
               IF IsOk(read)
               THEN /\ state' = read.v.state
                    /\ compiler_environment' = read.v.compiler_environment
                    /\ last_inserted' =
                          IF IsSome(read.v.inserted) THEN read.v.inserted ELSE last_inserted
                    /\ pending' = Tail(pending)
                    /\ UNCHANGED compile_error
               ELSE /\ state' = Dropped
                    /\ compiler_environment' = CompilerEnvironmentNew
                    /\ compile_error' = Some([r |-> read.r, message |-> read.v])
                    /\ pending' = <<>>
                    /\ UNCHANGED last_inserted
       IN  /\ body_braces' = BracesAfter(state, token)
           /\ Taken(CompilerRead(state, compiler_environment, token))
    /\ UNCHANGED <<runtime_object, fragments_fed, overflow_checks, runtime_vars, other_vars>>

\* Compiler::finalize once the tokens are used up.  It consumes the compiler.
Finalize ==
    /\ state.kind # "Dropped"
    /\ pending = <<>>
    /\ LET finalized == CompilerFinalize(state, compiler_environment)
       IN  IF IsOk(finalized)
           THEN runtime_object' = Some(finalized.v) /\ UNCHANGED compile_error
           ELSE /\ compile_error' = Some([r |-> finalized.r, message |-> finalized.v])
                /\ UNCHANGED runtime_object
    /\ state' = Dropped
    /\ compiler_environment' = CompilerEnvironmentNew
    /\ UNCHANGED <<pending, fragments_fed, last_inserted, body_braces, overflow_checks,
                   runtime_vars, other_vars>>

NextCompile == Feed \/ Read \/ Finalize

SpecCompile == InitCompile /\ [][NextCompile]_vars

-----------------------------------------------------------------------------
(* Properties of the compilation *)

Instructions(inserted) == inserted.builder.procedure.instructions
EmittedBy(inserted) == inserted.builder.emitted_by

\* C1 (as the specification states it): a closing brace read inside a
\* procedure body ends the body exactly when it matches the brace that
\* opened the body; a closing brace of an inner brace (a block, or a struct
\* construction inside a statement) is handed to the builder.
C1_BodyEndsAtMatchingBrace ==
    IsSome(body_braces.closed) =>
        (Unwrap(body_braces.closed).ended <=> Unwrap(body_braces.closed).depth = 0)

\* C5: whenever a procedure is inserted into the module, the builder it was
\* built from is in state Base with an empty scope-escape stack; and a brace
\* taken for the end of the body while the builder is inside a statement
\* inserts nothing and ends the compilation with an error.
C5_InsertedFromBaseBuilder ==
    /\ IsSome(last_inserted) =>
          /\ Unwrap(last_inserted).builder.state.st = "Base"
          /\ Unwrap(last_inserted).builder.scope_stack = <<>>
    /\ (IsSome(body_braces.closed) /\ Unwrap(body_braces.closed).ended
            /\ Unwrap(body_braces.closed).scanning) =>
          /\ state.kind = "Dropped"
          /\ IsSome(compile_error)

\* A procedure with at least one instruction has been inserted.
C5_Witness ==
    /\ IsSome(last_inserted)
    /\ Len(Instructions(Unwrap(last_inserted))) > 0
    /\ state.kind = "Module"

\* A body was ended inside an unfinished statement and the compilation failed.
C5_UnfinishedWitness ==
    /\ IsSome(body_braces.closed)
    /\ Unwrap(body_braces.closed).ended
    /\ Unwrap(body_braces.closed).scanning
    /\ IsSome(compile_error)

\* C6: in every built procedure, the JumpConditional of each if statement and
\* the bridge JumpConditional of each else have a resolved jump_target that is
\* greater than their own index and at most the number of instructions; none
\* keeps the placeholder usize::MAX.
C6_IfElseJumpsResolved ==
    IsSome(last_inserted) =>
        LET instructions == Instructions(Unwrap(last_inserted))
            by == EmittedBy(Unwrap(last_inserted))
        IN  \A i \in 1..Len(instructions) :
                (by[i] \in {"if", "else"} /\ instructions[i].op = "JumpConditional") =>
                    /\ instructions[i].jump_target # UsizeMax
                    /\ instructions[i].jump_target > i - 1
                    /\ instructions[i].jump_target <= Len(instructions)

\* A built procedure holds an if with an else.
C6_Witness ==
    /\ IsSome(last_inserted)
    /\ LET instructions == Instructions(Unwrap(last_inserted))
           by == EmittedBy(Unwrap(last_inserted))
       IN  /\ \E i \in 1..Len(instructions) :
                  by[i] = "if" /\ instructions[i].op = "JumpConditional"
           /\ \E i \in 1..Len(instructions) :
                  by[i] = "else" /\ instructions[i].op = "JumpConditional"

\* The read of the brace that closes a while block: the builder is between
\* statements and the innermost open block is a while loop.
ClosesWhile ==
    /\ InBody(state)
    /\ pending # <<>>
    /\ Head(pending) = CurlyClose
    /\ state.procedure.procedure.state.st = "Base"
    /\ state.procedure.procedure.scope_stack # <<>>
    /\ Last(state.procedure.procedure.scope_stack).handler = "While"

\* C7: for a while loop whose head JumpConditional is at index J, closing the
\* block appends exactly one ShrinkStack followed by exactly one
\* JumpConditional(true, J), and sets the head jump_target to the index right
\* after that back-jump; nothing else changes.
C7_WhileClose ==
    [][ClosesWhile =>
          LET J == Last(state.procedure.procedure.scope_stack).target_instruction
              old == state.procedure.procedure.procedure.instructions
              new == state'.procedure.procedure.procedure.instructions
          IN  /\ InBody(state')
              /\ Len(new) = Len(old) + 2
              /\ new[Len(old) + 1].op = "ShrinkStack"
              /\ new[Len(old) + 2].op = "JumpConditional"
              /\ new[Len(old) + 2].expression.x = "Value"
              /\ new[Len(old) + 2].expression.v = Bool(TRUE)
              /\ new[Len(old) + 2].jump_target = J
              /\ old[J + 1].op = "JumpConditional"
              /\ new[J + 1].op = "JumpConditional"
              /\ new[J + 1].jump_target = Len(old) + 2
              /\ \A i \in 1..Len(old) :
                    /\ new[i].op = old[i].op
                    /\ i # J + 1 => new[i].jump_target = old[i].jump_target
       ]_vars

\* The block of a while loop has just been closed.
C7_Witness ==
    /\ InBody(state)
    /\ LET by == state.procedure.procedure.emitted_by
       IN  /\ Len(by) >= 3
           /\ by[Len(by)] = "while-back"
           /\ by[Len(by) - 1] = "while-end"
           /\ \E i \in 1..Len(by) : by[i] = "while"

-----------------------------------------------------------------------------
(* Running: a procedure call and the turns of the loop of
   CompiledProcedure::call (runtime/procedures.rs) *)

Point == ModuleAddress("Shapes", "Point")

\* The struct Shapes::Point: a public field x and a private field secret.
PointPrototype ==
    InsertMember(InsertMember(StructNew(Point), "x", Null, TRUE).v, "secret", Null, FALSE).v

\* Shapes::leak(p) returns a reference to its own argument.
LeakProcedure ==
    CompiledProcedure(<<"p">>, <<Return(ReferenceExpression(<<AddrIdentifier("p")>>))>>)

\* The procedures whose calls are followed turn by turn.  Their bodies are
\* left open: the body of each is any sequence of the instructions of its
\* menu, chosen instruction by instruction as the pc reaches it.
OpenProcedure(arguments_identifiers) == CompiledProcedure(arguments_identifiers, <<>>)

\* Shapes::hidden() and the struct Shapes::Inner are not exported.
HiddenProcedure == CompiledProcedure(<<>>, <<Return(ValueExpression(Integer(7)))>>)
Inner == ModuleAddress("Shapes", "Inner")

\* Shapes::poke(p, q) writes 9 to the field x of what p refers to and
\* returns q.
PokeProcedure ==
    CompiledProcedure(<<"p", "q">>,
        <<EvaluateExpression(ValueExpression(Integer(9)),
                             Some(<<AddrIdentifier("p"), AddrIdentifier("x")>>)),
          Return(VariableExpression(<<AddrIdentifier("q")>>))>>)

\* Main::quotient(a, b) returns a / b, parsed from its tokens, to its caller.
Quotient == Parse(<<Identifier("a"), Operator("Divide"), Identifier("b")>>).v
QuotientProcedure == CompiledProcedure(<<"a", "b">>, <<Return(Quotient)>>)

\* Shapes::peek(p) reads b, Shapes::smash() writes a, Shapes::shadow(b)
\* writes its own b and declares q, Shapes::unveil(p) reads the private field
\* of its argument.
PeekProcedure ==
    CompiledProcedure(<<"p">>, <<Return(VariableExpression(<<AddrIdentifier("b")>>))>>)
SmashProcedure ==
    CompiledProcedure(<<>>,
        <<EvaluateExpression(ValueExpression(Integer(5)), Some(<<AddrIdentifier("a")>>))>>)
ShadowProcedure ==
    CompiledProcedure(<<"b">>,
        <<EvaluateExpression(ValueExpression(Integer(5)), Some(<<AddrIdentifier("b")>>)),
          PushVarToScope("q"),
          Return(VariableExpression(<<AddrIdentifier("b")>>))>>)
UnveilProcedure ==
    CompiledProcedure(<<"p">>,
        <<Return(VariableExpression(<<AddrIdentifier("p"), AddrIdentifier("secret")>>))>>)

ShapesModule ==
    InsertProcedure(InsertProcedure(InsertProcedure(InsertProcedure(
    InsertProcedure(
        InsertProcedure(
            InsertProcedure(
                InsertStruct(
                    InsertProcedure(
                        InsertProcedure(
                            InsertStruct(ModuleDefault, "Point", PointPrototype, TRUE),
                            "leak", LeakProcedure, TRUE),
                        "inside", OpenProcedure(<<"a", "b">>), TRUE),
                    "Inner", StructNew(Inner), FALSE),
                "hidden", HiddenProcedure, FALSE),
            "resolve", OpenProcedure(<<>>), TRUE),
        "poke", PokeProcedure, TRUE),
        "peek", PeekProcedure, TRUE), "smash", SmashProcedure, TRUE),
        "shadow", ShadowProcedure, TRUE), "unveil", UnveilProcedure, TRUE)
MainModule ==
    InsertProcedure(
        InsertProcedure(InsertProcedure(
            InsertProcedure(
                InsertProcedure(
                    InsertProcedure(
                        InsertProcedure(
                            InsertProcedure(
                                InsertProcedure(
                                    InsertProcedure(
                                        InsertProcedure(
                                            InsertProcedure(
                                                InsertProcedure(
                                                    InsertProcedure(
                                                        InsertProcedure(
                                                            InsertProcedure(
                                                                InsertProcedure(ModuleDefault, "main",
                                                                                OpenProcedure(<<"a", "b">>), TRUE),
                                                                "index", OpenProcedure(<<"a", "b">>), TRUE),
                                                            "sized", OpenProcedure(<<"b">>), TRUE),
                                                        "resolve", OpenProcedure(<<>>), TRUE),
                                                    "copy", OpenProcedure(<<"a", "b">>), TRUE),
                                                "equal", OpenProcedure(<<"a", "b">>), TRUE),
                                            "refer", OpenProcedure(<<"a", "b">>), TRUE),
                                        "duplicate", OpenProcedure(<<"a", "b">>), TRUE),
                                    "order", OpenProcedure(<<"a", "b">>), TRUE),
                                "argue", OpenProcedure(<<"a", "b">>), TRUE),
                            "hand", OpenProcedure(<<"a", "b">>), TRUE),
                        "compare", OpenProcedure(<<"a", "b">>), TRUE),
                    "scopes", OpenProcedure(<<"a", "b">>), TRUE),
                "isolate", OpenProcedure(<<"a", "b">>), TRUE),
            "divide", OpenProcedure(<<"a", "b">>), TRUE),
            "quotient", QuotientProcedure, TRUE),
        "arity", OpenProcedure(<<"a", "b">>), TRUE)

\* The base environment of the RuntimeObject: Environment::new("") with the
\* two modules loaded.
BaseEnvironment ==
    LoadModule(LoadModule(EnvironmentDefault, "Shapes", ShapesModule), "Main", MainModule)

A == <<AddrIdentifier("a")>>
B == <<AddrIdentifier("b")>>
Field(address, field) == Append(address, AddrIdentifier(field))
At2(address, expression) == Append(address, AddrDynamicIndex(expression))
NewPoint == StructConstructionExpression(Point, <<>>)
NestedPoint ==
    StructConstructionExpression(Point, <<<<"secret", NewPoint>>,
                                          <<"x", ValueExpression(Integer(1))>>>>)
NewArray(size) == ProcedureCallExpression(ModuleAddress("Arrays", "new"), <<size>>)
ArraySize(array) == ProcedureCallExpression(ModuleAddress("Arrays", "size"), <<array>>)
Leak(argument) == ProcedureCallExpression(ModuleAddress("Shapes", "leak"), <<argument>>)
Statement(expression) == EvaluateExpression(expression, None)
Assign(address, expression) == EvaluateExpression(expression, Some(address))

\* Instructions over a Point in a and anything in b.
StructMenu ==
    <<Statement(VariableExpression(A)),
      Statement(VariableExpression(Field(A, "x"))),
      Statement(VariableExpression(Field(A, "secret"))),
      Statement(VariableExpression(Field(Field(A, "secret"), "x"))),
      Assign(Field(A, "x"), ValueExpression(Integer(5))),
      Assign(Field(A, "secret"), ValueExpression(Integer(5))),
      Assign(Field(Field(A, "secret"), "x"), ValueExpression(Integer(5))),
      Assign(B, ReferenceExpression(A)),
      Statement(VariableExpression(Field(B, "x"))),
      Assign(Field(B, "x"), ValueExpression(Integer(6))),
      Statement(VariableExpression(Field(B, "secret"))),
      Assign(Field(B, "secret"), ValueExpression(Integer(5))),
      Assign(A, NewPoint),
      Assign(B, Leak(VariableExpression(A))),
      Return(VariableExpression(A))>>

\* Instructions that index the array in a with the value of b.
IndexMenu ==
    <<Assign(At2(A, VariableExpression(B)), ValueExpression(Integer(1))),
      Statement(VariableExpression(At2(A, VariableExpression(B)))),
      Assign(At2(A, ValueExpression(Integer(0))), VariableExpression(B))>>

\* Instructions that make and measure arrays of the size in b.
SizedMenu ==
    <<Assign(B, NewArray(VariableExpression(B))),
      Assign(B, ArraySize(VariableExpression(B))),
      Assign(B, ArraySize(NewArray(VariableExpression(B))))>>

\* Instructions that resolve members of Shapes: the two that are not
\* exported and two that are; then constructions of a Point that override its
\* private field and its public field.
ResolveMenu ==
    <<Statement(ProcedureCallExpression(ModuleAddress("Shapes", "hidden"), <<>>)),
      Statement(StructConstructionExpression(Inner, <<>>)),
      Statement(Leak(NewPoint)),
      Statement(NewPoint),
      Statement(StructConstructionExpression(
                    Point, <<<<"secret", ValueExpression(Integer(1))>>>>)),
      Statement(StructConstructionExpression(
                    Point, <<<<"x", ValueExpression(Integer(1))>>>>))>>

\* Instructions that copy the array in a to b and write to the elements of
\* the two.
First(address) == At2(address, ValueExpression(Integer(0)))
Second(address) == At2(address, ValueExpression(Integer(1)))
CopyMenu ==
    <<Assign(B, VariableExpression(A)),
      Assign(First(B), ValueExpression(Integer(1))),
      Assign(Second(A), ValueExpression(Integer(2))),
      Assign(First(A), NewPoint),
      Assign(Field(First(B), "x"), ValueExpression(Integer(5)))>>

\* Instructions that compare references to the structs in a and b.
EqualMenu ==
    <<Return(BinaryExpression("Equality", ReferenceExpression(A), ReferenceExpression(B))),
      Return(BinaryExpression("Equality", ReferenceExpression(A), ReferenceExpression(A))),
      Assign(Field(A, "x"), ValueExpression(Integer(5)))>>

\* Instructions that take a reference to the struct in a, to the struct in
\* its field x and to the struct in the first element of the array in b.
PointInPoint == StructConstructionExpression(Point, <<<<"x", NewPoint>>>>)
ReferMenu ==
    <<Assign(First(B), NewPoint),
      Return(ReferenceExpression(A)),
      Return(ReferenceExpression(Field(A, "x"))),
      Return(ReferenceExpression(First(B)))>>

\* Instructions that clone the struct in a and the struct in its field x
\* into b, and then write to the two.
DuplicateMenu ==
    <<Assign(B, CloneExpression(A)),
      Assign(B, CloneExpression(Field(A, "x"))),
      Assign(Field(B, "x"), ValueExpression(Integer(5))),
      Assign(Field(A, "x"), ValueExpression(Integer(6)))>>

\* One statement per binary operator of the language, parsed from its
\* tokens: the left operand a.y fails on a Point (no such member) and the
\* right operand b.x fails on Null (no addressant accepted).
BinaryOperators ==
    <<"Plus", "Minus", "Multiply", "Divide", "Modulo", "Power", "And", "Or", "Equality",
      "Inequality", "Greater", "Less", "GreaterEquals", "LessEquals">>
LeftOperand == <<Identifier("a"), Dot, Identifier("y")>>
RightOperand == <<Identifier("b"), Dot, Identifier("x")>>
OrderMenu ==
    [n \in 1..Len(BinaryOperators) |->
        Statement(Parse(LeftOperand \o <<Operator(BinaryOperators[n])>> \o RightOperand).v)]

\* Calls of Shapes::poke from Main: with a second argument that fails, with
\* two arguments that fail, with a second argument that reads a private
\* field of a Point of Shapes, and with two arguments that evaluate.
Poke(first, second) == ProcedureCallExpression(ModuleAddress("Shapes", "poke"), <<first, second>>)
ArgueMenu ==
    <<Statement(Poke(ReferenceExpression(A), Parse(RightOperand).v)),
      Statement(Poke(Parse(LeftOperand).v, Parse(RightOperand).v)),
      Statement(Poke(ReferenceExpression(A), VariableExpression(Field(A, "secret")))),
      Statement(Poke(ReferenceExpression(A), ValueExpression(Integer(1))))>>

\* Instructions that hand the struct in a from binding to binding: to b and
\* back, its field x to b, to a callee, to a variable q declared on the way.
Q == <<AddrIdentifier("q")>>
HandMenu ==
    <<Assign(B, VariableExpression(A)),
      Assign(A, VariableExpression(B)),
      Assign(B, VariableExpression(Field(A, "x"))),
      Assign(A, NewPoint),
      Assign(B, Leak(VariableExpression(A))),
      PushVarToScope("q"),
      Assign(Q, VariableExpression(A)),
      Return(VariableExpression(B))>>

\* One return per comparison of the language, parsed from the tokens of
\* a op b.
Comparisons ==
    <<"Less", "LessEquals", "GreaterEquals", "Inequality", "Greater", "Equality">>
CompareMenu ==
    [n \in 1..Len(Comparisons) |->
        Return(Parse(<<Identifier("a"), Operator(Comparisons[n]), Identifier("b")>>).v)]

\* The Integers compared with one another.
ComparedIntegers == <<0 - 2, 0 - 1, 0, 1, 2>>

\* Instructions that declare a and q, open and close frames, and write and
\* read the two names.
ScopesMenu ==
    <<PushVarToScope("a"),
      PushVarToScope("q"),
      GrowStack,
      ShrinkStack,
      Assign(A, ValueExpression(Integer(5))),
      Assign(Q, ValueExpression(Integer(7))),
      Return(VariableExpression(A)),
      Return(VariableExpression(Q))>>

\* Calls of procedures of Shapes from Main: callees that read and write
\* the names of the caller, a callee that reads a private field of Shapes, a
\* call that moves the struct in a to the callee, and a call that hands the
\* callee a reference to it.
Shapes(identifier, arguments) ==
    ProcedureCallExpression(ModuleAddress("Shapes", identifier), arguments)
IsolateMenu ==
    <<Statement(Shapes("peek", <<ValueExpression(Integer(1))>>)),
      Statement(Shapes("smash", <<>>)),
      Statement(Shapes("shadow", <<ValueExpression(Integer(2))>>)),
      Statement(Shapes("unveil", <<NewPoint>>)),
      Statement(Leak(VariableExpression(A))),
      Statement(Poke(ReferenceExpression(A), ValueExpression(Integer(1))))>>

\* A return of a / b and one of a % b, parsed from their tokens, and a call
\* of Main::quotient.
DivideMenu ==
    <<Return(Quotient),
      Return(Parse(<<Identifier("a"), Operator("Modulo"), Identifier("b")>>).v),
      Return(ProcedureCallExpression(ModuleAddress("Main", "quotient"),
                                     <<VariableExpression(A), VariableExpression(B)>>))>>

\* Instructions of a procedure declared with a and b that read a, read b,
\* write b, hand b to a, and call Main::quotient, which is declared with a
\* and b, with one argument and with three.
QuotientOf(arguments) ==
    ProcedureCallExpression(ModuleAddress("Main", "quotient"), arguments)
ArityMenu ==
    <<Return(VariableExpression(A)),
      Return(VariableExpression(B)),
      Assign(B, ValueExpression(Integer(5))),
      Assign(A, VariableExpression(B)),
      Return(QuotientOf(<<ValueExpression(Integer(6))>>)),
      Return(QuotientOf(<<ValueExpression(Integer(6)), ValueExpression(Integer(3)),
                          VariableExpression(A)>>))>>

\* Argument lists shorter and longer than the two identifiers of arity.
Arities ==
    <<<<>>,
      <<ValueExpression(Integer(1))>>,
      <<NewPoint>>,
      <<ValueExpression(Integer(1)), ValueExpression(Integer(2)), NewPoint>>,
      <<NewPoint, ValueExpression(Integer(2)), ValueExpression(Integer(3))>>>>

\* The dividends and the divisors.
Dividends == <<0 - 7, 7>>
Divisors == <<0, 2, 0 - 2>>

Menu(procedure_id) ==
    CASE procedure_id.identifier \in {"main", "inside"} -> StructMenu
      [] procedure_id.identifier = "index" -> IndexMenu
      [] procedure_id.identifier = "sized" -> SizedMenu
      [] procedure_id.identifier = "resolve" -> ResolveMenu
      [] procedure_id.identifier = "copy" -> CopyMenu
      [] procedure_id.identifier = "equal" -> EqualMenu
      [] procedure_id.identifier = "refer" -> ReferMenu
      [] procedure_id.identifier = "duplicate" -> DuplicateMenu
      [] procedure_id.identifier = "order" -> OrderMenu
      [] procedure_id.identifier = "argue" -> ArgueMenu
      [] procedure_id.identifier = "hand" -> HandMenu
      [] procedure_id.identifier = "compare" -> CompareMenu
      [] procedure_id.identifier = "scopes" -> ScopesMenu
      [] procedure_id.identifier = "isolate" -> IsolateMenu
      [] procedure_id.identifier = "divide" -> DivideMenu
      [] procedure_id.identifier = "arity" -> ArityMenu

\* The values an index or a size is drawn from.
Scalars ==
    <<ValueExpression(Integer(0)), ValueExpression(Integer(1)), ValueExpression(Integer(2)),
      ValueExpression(Integer(0 - 1)), ValueExpression(Float(3, 2)),
      ValueExpression(Bool(TRUE)), ValueExpression(String(<<"1">>)),
      ValueExpression(Char("1")), ValueExpression(Null)>>

\* The calls followed: the procedure and its argument expressions.
ProcedureCall(module_id, identifier, arguments) ==
    [procedure_id |-> ModuleAddress(module_id, identifier), arguments |-> arguments]
Calls ==
    <<ProcedureCall("Main", "main", <<NewPoint, ValueExpression(Null)>>),
      ProcedureCall("Main", "main", <<NestedPoint, ValueExpression(Integer(3))>>),
      ProcedureCall("Shapes", "inside", <<NewPoint, ValueExpression(Null)>>),
      ProcedureCall("Shapes", "inside", <<NestedPoint, ValueExpression(Integer(3))>>)>>
    \o [n \in 1..Len(Scalars) |->
            ProcedureCall("Main", "index",
                          <<NewArray(ValueExpression(Integer(2))), Scalars[n]>>)]
    \o <<ProcedureCall("Main", "index",
                       <<NewArray(ValueExpression(Integer(2))),
                         NewArray(ValueExpression(Integer(1)))>>),
         ProcedureCall("Main", "index", <<NewArray(ValueExpression(Integer(2))), NewPoint>>)>>
    \o [n \in 1..(MaxArrayLen + 1) |->
            ProcedureCall("Main", "sized", <<ValueExpression(Integer(n - 1))>>)]
    \o <<ProcedureCall("Main", "sized", <<ValueExpression(Integer(0 - 1))>>),
         ProcedureCall("Main", "sized", <<ValueExpression(Integer(ArrayCapacity + 1))>>),
         ProcedureCall("Main", "sized", <<ValueExpression(Integer(I64Max))>>),
         ProcedureCall("Main", "sized", <<ValueExpression(Null)>>),
         ProcedureCall("Main", "resolve", <<>>),
         ProcedureCall("Shapes", "resolve", <<>>),
         ProcedureCall("Main", "copy",
                       <<NewArray(ValueExpression(Integer(2))), ValueExpression(Null)>>),
         ProcedureCall("Main", "equal", <<NewPoint, NewPoint>>),
         ProcedureCall("Main", "refer",
                       <<PointInPoint, NewArray(ValueExpression(Integer(2)))>>),
         ProcedureCall("Main", "duplicate", <<PointInPoint, ValueExpression(Null)>>),
         ProcedureCall("Main", "order", <<NewPoint, ValueExpression(Null)>>),
         ProcedureCall("Main", "argue", <<NewPoint, ValueExpression(Null)>>),
         ProcedureCall("Main", "hand", <<PointInPoint, ValueExpression(Null)>>)>>
    \o <<ProcedureCall("Main", "scopes", <<ValueExpression(Integer(1)), ValueExpression(Null)>>),
         ProcedureCall("Main", "isolate", <<NewPoint, ValueExpression(Integer(1))>>)>>
    \o [n \in 1..Len(Arities) |-> ProcedureCall("Main", "arity", Arities[n])]
    \o [n \in 1..(Len(Dividends) * Len(Divisors)) |->
            ProcedureCall("Main", "divide",
                <<ValueExpression(Integer(Dividends[((n - 1) \div Len(Divisors)) + 1])),
                  ValueExpression(Integer(Divisors[((n - 1) % Len(Divisors)) + 1]))>>)]
    \o [n \in 1..(Len(ComparedIntegers) * Len(ComparedIntegers)) |->
            ProcedureCall("Main", "compare",
                <<ValueExpression(Integer(
                      ComparedIntegers[((n - 1) \div Len(ComparedIntegers)) + 1])),
                  ValueExpression(Integer(
                      ComparedIntegers[((n - 1) % Len(ComparedIntegers)) + 1]))>>)]

InitRuntime ==
    /\ state = CompilerBaseStateNew
    /\ compiler_environment = CompilerEnvironmentNew
    /\ compile_error = None
    /\ runtime_object = None
    /\ pending = <<>>
    /\ fragments_fed = 0
    /\ last_inserted = None
    /\ body_braces = NoBraces
    /\ overflow_checks \in BOOLEAN
    /\ call_environment = BaseEnvironment
    /\ cells = <<>>
    /\ last_executed = NothingExecuted
    /\ before = NothingBefore
    /\ steps = 0
    /\ running = None
    /\ OthersIdle

\* ProcedureCallExpression::eval up to the first turn of the loop of
\* CompiledProcedure::call: the procedure is looked up, the arguments are
\* evaluated in the calling environment, the subenvironment is opened and the
\* arguments are bound in its frame (expressions.rs 14-31, procedures.rs 43-57).
Call ==
    /\ ~IsSome(running)
    /\ \E c \in 1..Len(Calls) :
          LET opened == OpenSubenvironment(call_environment, StackNew, Calls[c].procedure_id)
              Inserted(procedure, arguments, bound) ==
                  /\ call_environment' = bound.v
                  /\ cells' = bound.heap
                  /\ running' = Some([procedure_id |-> Calls[c].procedure_id,
                                      arguments_identifiers |->
                                          procedure.v.arguments_identifiers,
                                      arguments |-> arguments.v])
              Zipped(procedure, arguments, members) ==
                  Inserted(procedure, arguments,
                           InsertMembers(opened, members.v, members.heap))
              Evaluated(procedure, arguments) ==
                  /\ arguments.r = "Ok"
                  /\ Zipped(procedure, arguments,
                            ZipMembers(procedure.v.arguments_identifiers, arguments.v,
                                       EmptyMap, arguments.heap))
              Looked(procedure) ==
                  /\ IsOk(procedure)
                  /\ Evaluated(procedure,
                               EvalArguments(Calls[c].arguments, <<>>, call_environment, cells))
          IN  Looked(GetProcedureByAddress(call_environment, Calls[c].procedure_id))
    /\ before' = [environment |-> call_environment, heap |-> cells]
    /\ UNCHANGED <<compile_vars, overflow_checks, last_executed, steps, other_vars>>

\* One turn of the loop of CompiledProcedure::call.  An error, a panic or a
\* Return ends the call, and the call drops the environment it owns: every
\* struct that the frames own is freed, and what a Return hands back, which
\* is in no frame, stays.  No further turn is taken; call_environment then
\* records the environment as it was when it was dropped.
Step ==
    /\ IsSome(running)
    /\ last_executed.r = "Ok"
    /\ steps < MaxSteps
    /\ \E i \in 1..Len(Menu(Unwrap(running).procedure_id)) :
          LET Turned(executed) ==
                  /\ call_environment' = executed.environment
                  /\ cells' = IF executed.r = "Ok" THEN executed.heap
                              ELSE DropAll(StackValues(executed.environment.scope),
                                           executed.heap)
                  /\ last_executed' = [index |-> i, r |-> executed.r,
                                       message |-> executed.message,
                                       returned |-> executed.returned]
          IN  Turned(ExecuteInstruction(Menu(Unwrap(running).procedure_id)[i],
                                        call_environment, cells, steps))
    /\ before' = [environment |-> call_environment, heap |-> cells]
    /\ steps' = steps + 1
    /\ UNCHANGED <<compile_vars, overflow_checks, running, other_vars>>

\* The loop of CompiledProcedure::call finds no instruction left: the call
\* returns Ok(Null) and drops its environment as every return does.  No
\* instruction was executed (index 0), and End says that the call is over.
Fall ==
    /\ IsSome(running)
    /\ last_executed.r = "Ok"
    /\ cells' = DropAll(StackValues(call_environment.scope), cells)
    /\ last_executed' = [index |-> 0, r |-> "End", message |-> "", returned |-> Null]
    /\ before' = [environment |-> call_environment, heap |-> cells]
    /\ UNCHANGED <<compile_vars, overflow_checks, call_environment, steps, running,
                   other_vars>>

NextRuntime == Call \/ Step \/ Fall

SpecRuntime == InitRuntime /\ [][NextRuntime]_vars

-----------------------------------------------------------------------------
(* Properties of the running call *)

\* The instruction executed last, and the procedure it belongs to.
HasExecuted == IsSome(running) /\ last_executed.index > 0
Running == Unwrap(running).procedure_id.identifier
LastInstruction == Menu(Unwrap(running).procedure_id)[last_executed.index]

\* The value an identifier is bound to (Stack::get).
Bound(environment, identifier) ==
    environment.scope[FrameOf(environment.scope, identifier, Len(environment.scope))][identifier]

\* An address that starts at `identifier` and goes on through fields only.
FieldsOnly(address) == \A n \in 1..Len(address) : address[n].ad = "Identifier"
StartsAt(address, identifier) ==
    /\ address # <<>>
    /\ FieldsOnly(address)
    /\ Head(address).v = identifier

\* A read of an address (a variable expression evaluated as a statement) and
\* a write of a scalar to an address.
IsRead(instruction) ==
    /\ instruction.op = "EvaluateExpression"
    /\ ~IsSome(instruction.target)
    /\ instruction.expression.x = "Variable"
IsWrite(instruction) ==
    /\ instruction.op = "EvaluateExpression"
    /\ IsSome(instruction.target)
    /\ instruction.expression.x = "Value"
AccessedAddress(instruction) ==
    IF IsSome(instruction.target) THEN Unwrap(instruction.target) ELSE instruction.expression.v

\* The instruction reads `identifier` with no trailing addressant: as a
\* statement or the value of an assignment or of a return, or as the
\* argument of a call.
IsWhole(expression, identifier) ==
    /\ expression.x = "Variable"
    /\ Len(expression.v) = 1
    /\ StartsAt(expression.v, identifier)
ReadsWhole(instruction, identifier) ==
    /\ instruction.op \in {"EvaluateExpression", "Return"}
    /\ \/ IsWhole(instruction.expression, identifier)
       \/ /\ instruction.expression.x = "ProcedureCall"
          /\ \E n \in 1..Len(instruction.expression.v.arguments) :
                IsWhole(instruction.expression.v.arguments[n], identifier)

\* The struct a Struct or a live StructRef stands for, if it is still there.
Target(value, heap) ==
    IF value.tag \in {"Struct", "StructRef"} /\ heap[value.i].live THEN heap[value.i].obj
    ELSE None

\* Walking `address` from `value` names a private field of a struct of a
\* module other than contained_module_id, every step before it resolving.
RECURSIVE NamesPrivateField(_, _, _, _)
NamesPrivateField(value, address, contained_module_id, heap) ==
    /\ address # <<>>
    /\ Head(address).ad = "Identifier"
    /\ IsSome(Target(value, heap))
    /\ LET obj == Unwrap(Target(value, heap))
           ident == Head(address).v
       IN  /\ ident \in DOMAIN obj.members
           /\ IF ~obj.members[ident].is_public /\ obj.struct_id.module_id # contained_module_id
              THEN TRUE
              ELSE NamesPrivateField(obj.members[ident].value, Tail(address),
                                     contained_module_id, heap)

\* Walking `address` from `value` resolves at every step and passes through
\* a private field of a struct of contained_module_id itself.
RECURSIVE ReachesOwnPrivateField(_, _, _, _, _)
ReachesOwnPrivateField(value, address, contained_module_id, heap, seen) ==
    IF address = <<>>
    THEN seen /\ (value.tag = "Struct" => IsSome(heap[value.i].obj))
    ELSE /\ Head(address).ad = "Identifier"
         /\ IsSome(Target(value, heap))
         /\ LET obj == Unwrap(Target(value, heap))
                ident == Head(address).v
            IN  /\ ident \in DOMAIN obj.members
                /\ obj.struct_id.module_id = contained_module_id
                /\ ReachesOwnPrivateField(obj.members[ident].value, Tail(address),
                                          contained_module_id, heap,
                                          seen \/ ~obj.members[ident].is_public)

\* The value at the end of an address, whatever the visibility of the fields.
RECURSIVE Lookup(_, _, _)
Lookup(value, address, heap) ==
    IF address = <<>> THEN value
    ELSE Lookup(Unwrap(Target(value, heap)).members[Head(address).v].value, Tail(address), heap)

\* What the instruction executed last handed back to the loop of
\* CompiledProcedure::call: the environment and the cells as Expression::eval
\* or Environment::set_variable left them when it returned.  After a turn
\* that went well these are call_environment and cells; when the turn ended
\* the call, this is what a caller of the pub fn finds when it returns the
\* error, and the return from the call then drops the environment.
Handed ==
    ExecuteInstruction(LastInstruction, before.environment, before.heap, steps - 1)

\* The instruction executed last handed back everything that existed before
\* it as it was.
NothingChanged ==
    /\ Handed.environment.scope = before.environment.scope
    /\ Len(Handed.heap) >= Len(before.heap)
    /\ \A c \in 1..Len(before.heap) : Handed.heap[c] = before.heap[c]

\* The cells a value owns: the cell of a Struct and what the struct in it
\* owns, and what the elements of an Array own.
RECURSIVE OwnedThrough(_, _)
OwnedThrough(value, heap) ==
    CASE value.tag = "Struct" ->
            {value.i} \cup
            (IF IsSome(heap[value.i].obj)
             THEN UNION {OwnedThrough(Unwrap(heap[value.i].obj).members[field].value, heap) :
                            field \in DOMAIN Unwrap(heap[value.i].obj).members}
             ELSE {})
      [] value.tag = "Array" ->
            UNION {OwnedThrough(value.e[n], heap) : n \in 1..Len(value.e)}
      [] OTHER -> {}

\* The call has ended and has dropped its environment: the only structs left
\* are the ones that the value handed back owns.
CallEnded == IsSome(running) /\ last_executed.r # "Ok"
FramesDropped ==
    CallEnded => \A c \in 1..Len(cells) :
                 cells[c].live => c \in OwnedThrough(last_executed.returned, cells)

\* C2: when the running module is not the module of a struct, a read or a
\* write whose address names a private field of it (as the last addressant or
\* before further ones, through a Struct or through a StructRef) fails with
\* the message Tried to access a private field! and hands everything back as
\* it was, the field with the value it had; when the running module is the
\* module of the struct, the same access succeeds, and a write stores the
\* value.
C2_PrivateFieldsAreGuarded ==
    (HasExecuted /\ Running \in {"main", "inside"}
        /\ (IsRead(LastInstruction) \/ IsWrite(LastInstruction))) =>
        LET address == AccessedAddress(LastInstruction)
            root == Bound(before.environment, Head(address).v)
            module_id == before.environment.contained_module_id
        IN  /\ NamesPrivateField(root, Tail(address), module_id, before.heap) =>
                  /\ last_executed.r = "Err"
                  /\ last_executed.message = "Tried to access a private field!"
                  /\ NothingChanged
            /\ ReachesOwnPrivateField(root, Tail(address), module_id, before.heap, FALSE) =>
                  /\ last_executed.r = "Ok"
                  /\ IsWrite(LastInstruction) =>
                        Lookup(Bound(call_environment, Head(address).v), Tail(address), cells)
                            = LastInstruction.expression.v

\* A write through a StructRef to a private field was refused.
C2_Witness ==
    /\ HasExecuted
    /\ Running = "main"
    /\ IsWrite(LastInstruction)
    /\ Bound(before.environment, Head(AccessedAddress(LastInstruction)).v).tag = "StructRef"
    /\ NamesPrivateField(Bound(before.environment, Head(AccessedAddress(LastInstruction)).v),
                         Tail(AccessedAddress(LastInstruction)),
                         before.environment.contained_module_id, before.heap)
    /\ last_executed.r = "Err"

\* The same write, in the module of the struct, went through.
C2_OwnModuleWitness ==
    /\ HasExecuted
    /\ Running = "inside"
    /\ IsWrite(LastInstruction)
    /\ Len(AccessedAddress(LastInstruction)) = 3
    /\ last_executed.r = "Ok"

\* The binding holds a struct that was moved out of it.
Moved(environment, heap, identifier) ==
    /\ Bound(environment, identifier).tag = "Struct"
    /\ ~IsSome(heap[Bound(environment, identifier).i].obj)
Holds(environment, heap, identifier) ==
    /\ Bound(environment, identifier).tag = "Struct"
    /\ IsSome(heap[Bound(environment, identifier).i].obj)

\* C3: a read of a Struct binding with no trailing addressant moves the
\* struct out; from then on every read of the binding, with or without
\* trailing field addressants, and every field write through it fails with
\* Use of moved value!, until the binding is assigned a new value.
C3_MovedStructIsUnusable ==
    (HasExecuted /\ Running \in {"main", "inside"}) =>
        /\ (ReadsWhole(LastInstruction, "a") /\ Holds(before.environment, before.heap, "a")
                /\ last_executed.r \in {"Ok", "Return"}) =>
              Moved(call_environment, cells, "a")
        /\ (Moved(before.environment, before.heap, "a")
                /\ \/ ReadsWhole(LastInstruction, "a")
                   \/ /\ IsRead(LastInstruction) \/ IsWrite(LastInstruction)
                      /\ StartsAt(AccessedAddress(LastInstruction), "a")
                      /\ IsWrite(LastInstruction) => Len(AccessedAddress(LastInstruction)) > 1) =>
              /\ last_executed.r = "Err"
              /\ last_executed.message = "Use of moved value!"
        /\ (LastInstruction.op = "EvaluateExpression" /\ IsSome(LastInstruction.target)
                /\ Len(Unwrap(LastInstruction.target)) = 1
                /\ StartsAt(Unwrap(LastInstruction.target), "a")
                /\ LastInstruction.expression.x = "StructConstruction"
                /\ last_executed.r = "Ok") =>
              Holds(call_environment, cells, "a")

\* A field write through a moved binding was refused.
C3_Witness ==
    /\ HasExecuted
    /\ Running \in {"main", "inside"}
    /\ Moved(before.environment, before.heap, "a")
    /\ IsWrite(LastInstruction)
    /\ StartsAt(AccessedAddress(LastInstruction), "a")
    /\ last_executed.message = "Use of moved value!"

\* A moved binding was assigned a new struct and read again.
C3_ReassignedWitness ==
    /\ HasExecuted
    /\ Running \in {"main", "inside"}
    /\ steps >= 3
    /\ IsRead(LastInstruction)
    /\ StartsAt(AccessedAddress(LastInstruction), "a")
    /\ last_executed.r = "Ok"
    /\ \E c \in 1..Len(cells) : cells[c].live /\ ~IsSome(cells[c].obj)

\* The cells owned by the Struct values found in a value: the value itself or
\* the elements of an array.
RECURSIVE StructsIn(_)
StructsIn(value) ==
    CASE value.tag = "Struct" -> {value.i}
      [] value.tag = "Array" -> UNION {StructsIn(value.e[n]) : n \in 1..Len(value.e)}
      [] OTHER -> {}

\* The cells that have an owner: a binding of a frame, a field of a struct
\* that is still in its cell, or the value the call returned.
OwnedCells ==
    UNION {UNION {StructsIn(call_environment.scope[f][identifier]) :
                     identifier \in DOMAIN call_environment.scope[f]} :
              f \in 1..Len(call_environment.scope)}
    \cup UNION {UNION {StructsIn(Unwrap(cells[c].obj).members[field].value) :
                          field \in DOMAIN Unwrap(cells[c].obj).members} :
                   c \in {d \in 1..Len(cells) : IsSome(cells[d].obj)}}
    \cup StructsIn(last_executed.returned)

\* The instruction accesses a field through `identifier`: a read or a write
\* of an address that starts at it and goes on.
AccessesThrough(instruction, identifier) ==
    /\ IsRead(instruction) \/ IsWrite(instruction)
    /\ StartsAt(AccessedAddress(instruction), identifier)
    /\ Len(AccessedAddress(instruction)) > 1

\* C4: a StructRef stays usable across the field reads and field writes of
\* the owner of its target; every access through it fails once the owner was
\* moved out by a read with no addressant (Use of moved value!), once the
\* binding of the owner was overwritten or the frame that held the owner was
\* removed (Use of dropped value!); and a StructRef never keeps its target
\* alive: a cell is live only while it has an owner, and when the call has
\* ended and its frames are gone, only what the returned value owns is left.
C4_StructRefFollowsItsOwner ==
    /\ \A c \in 1..Len(cells) : cells[c].live => c \in OwnedCells
    /\ FramesDropped
    /\ (HasExecuted /\ Running \in {"main", "inside"}
           /\ Bound(before.environment, "b").tag = "StructRef") =>
          LET target == Bound(before.environment, "b").i
              owner == Bound(before.environment, "a")
              owned == owner.tag = "Struct" /\ owner.i = target
              usable == before.heap[target].live /\ IsSome(before.heap[target].obj)
          IN  /\ (usable /\ owned /\ AccessesThrough(LastInstruction, "a")
                     /\ last_executed.r = "Ok") =>
                    cells[target].live /\ IsSome(cells[target].obj)
              /\ (usable /\ AccessesThrough(LastInstruction, "b")
                     /\ AccessedAddress(LastInstruction)[2].v = "x") =>
                    last_executed.r = "Ok"
              /\ (~before.heap[target].live /\ AccessesThrough(LastInstruction, "b")) =>
                    /\ last_executed.r = "Err"
                    /\ last_executed.message = "Use of dropped value!"
              /\ (before.heap[target].live /\ ~IsSome(before.heap[target].obj)
                     /\ AccessesThrough(LastInstruction, "b")) =>
                    /\ last_executed.r = "Err"
                    /\ last_executed.message = "Use of moved value!"
              /\ (usable /\ owned /\ ReadsWhole(LastInstruction, "a")
                     /\ last_executed.r \in {"Ok", "Return"}) =>
                    ~IsSome(cells[target].obj)
              /\ (usable /\ owned /\ LastInstruction.op = "EvaluateExpression"
                     /\ IsSome(LastInstruction.target)
                     /\ Len(Unwrap(LastInstruction.target)) = 1
                     /\ StartsAt(Unwrap(LastInstruction.target), "a")
                     /\ last_executed.r = "Ok") =>
                    ~cells[target].live
    /\ (HasExecuted /\ Running \in {"main", "inside"}
           /\ LastInstruction.expression.x = "ProcedureCall"
           /\ last_executed.r = "Ok") =>
          /\ Bound(call_environment, "b").tag = "StructRef"
          /\ ~cells[Bound(call_environment, "b").i].live

\* After a field write of the owner, a read through the StructRef succeeded.
C4_Witness ==
    /\ HasExecuted
    /\ steps >= 3
    /\ Bound(before.environment, "b").tag = "StructRef"
    /\ Bound(before.environment, "a").tag = "Struct"
    /\ Bound(before.environment, "a").i = Bound(before.environment, "b").i
    /\ Unwrap(before.heap[Bound(before.environment, "a").i].obj).members["x"].value = Integer(5)
    /\ IsRead(LastInstruction)
    /\ AccessesThrough(LastInstruction, "b")
    /\ last_executed.r = "Ok"

\* Accesses through a StructRef were refused: the owner was moved out, or the
\* owner is gone.
C4_MovedWitness ==
    /\ HasExecuted
    /\ Bound(before.environment, "b").tag = "StructRef"
    /\ AccessesThrough(LastInstruction, "b")
    /\ last_executed.message = "Use of moved value!"
C4_DroppedWitness ==
    /\ HasExecuted
    /\ Bound(before.environment, "b").tag = "StructRef"
    /\ AccessesThrough(LastInstruction, "b")
    /\ last_executed.message = "Use of dropped value!"

\* The identifiers are distinct.
Distinct(identifiers) ==
    \A m, n \in 1..Len(identifiers) : identifiers[m] = identifiers[n] => m = n

\* C8: when a procedure declared with k distinct argument identifiers is
\* called with k values, the frame the call starts with binds the i-th
\* identifier to the i-th value, and nothing else.
C8_ArgumentsBoundInOrder ==
    (IsSome(running) /\ steps = 0) =>
        LET identifiers == Unwrap(running).arguments_identifiers
            arguments == Unwrap(running).arguments
            scope == call_environment.scope
        IN  (Len(identifiers) = Len(arguments) /\ Distinct(identifiers)) =>
                /\ Len(scope) = 1
                /\ DOMAIN scope[1] = {identifiers[n] : n \in 1..Len(identifiers)}
                /\ \A n \in 1..Len(identifiers) : scope[1][identifiers[n]] = arguments[n]

\* A call with two arguments, a struct first, has bound them.
C8_Witness ==
    /\ IsSome(running)
    /\ steps = 0
    /\ Len(Unwrap(running).arguments) = 2
    /\ Unwrap(running).arguments[1].tag = "Struct"
    /\ Unwrap(running).arguments[2].tag = "Integer"

\* The instruction executed last indexes a with the value of b, which is
\* anything but a non-negative Integer.
IndexedByB ==
    /\ HasExecuted
    /\ Running = "index"
    /\ last_executed.index \in {1, 2}
BadIndex(value) == ~(value.tag = "Integer" /\ value.i >= 0)

\* C9 (as the specification states it): an address with a dynamic index that
\* evaluates to anything but a non-negative Integer yields an error and, for
\* a write, no binding of the scope is changed.
C9_BadIndexChangesNothing ==
    (IndexedByB /\ BadIndex(Bound(before.environment, "b"))) =>
        /\ last_executed.r = "Err"
        /\ IsSome(LastInstruction.target) => NothingChanged

\* C9 (as the code has it): such an address yields an error, and when
\* Environment::set_variable returns it, every binding is as the evaluation
\* of the index left it: nothing is changed, but that a Struct read as the
\* index has been moved out of its binding and dropped.
C9_BadIndexFails ==
    (IndexedByB /\ BadIndex(Bound(before.environment, "b"))) =>
        LET index == Bound(before.environment, "b")
        IN  /\ last_executed.r = "Err"
            /\ IsSome(LastInstruction.target) =>
                  /\ Handed.r = "Err"
                  /\ Handed.environment.scope = before.environment.scope
                  /\ Len(Handed.heap) >= Len(before.heap)
                  /\ \A c \in 1..Len(Handed.heap) :
                        c > Len(before.heap) => ~Handed.heap[c].live
                  /\ IF Holds(before.environment, before.heap, "b")
                     THEN /\ Moved(Handed.environment, Handed.heap, "b")
                          /\ \A c \in 1..Len(before.heap) :
                                c # index.i => Handed.heap[c] = before.heap[c]
                     ELSE \A c \in 1..Len(before.heap) : Handed.heap[c] = before.heap[c]

\* A write indexed by a negative Integer was refused.
C9_Witness ==
    /\ IndexedByB
    /\ IsSome(LastInstruction.target)
    /\ Bound(before.environment, "b") = Integer(0 - 1)
    /\ last_executed.r = "Err"

\* A write indexed by a Struct was refused and handed the binding of the
\* Struct back moved out.
C9_StructWitness ==
    /\ IndexedByB
    /\ IsSome(LastInstruction.target)
    /\ Holds(before.environment, before.heap, "b")
    /\ last_executed.r = "Err"
    /\ Moved(Handed.environment, Handed.heap, "b")

C10_CapacityWitness ==
    /\ HasExecuted
    /\ Running = "sized"
    /\ last_executed.index = 1
    /\ Bound(before.environment, "b") = Integer(ArrayCapacity + 1)
    /\ last_executed.r = "Panic"

C11_FreshInstanceIsThePrototype ==
    /\ call_environment.loaded_modules = BaseEnvironment.loaded_modules
    /\ (/\ HasExecuted
        /\ Running \in {"main", "inside"}
        /\ LastInstruction = Assign(A, NewPoint)
        /\ last_executed.r = "Ok") =>
            LET made == Bound(call_environment, "a")
            IN  /\ made.tag = "Struct"
                /\ made.i > Len(before.heap)
                /\ cells[made.i].live
                /\ IsSome(cells[made.i].obj)
                /\ Unwrap(cells[made.i].obj).struct_id = Point
                /\ DOMAIN Unwrap(cells[made.i].obj).members = {"x", "secret"}
                /\ \A field \in {"x", "secret"} :
                      Unwrap(cells[made.i].obj).members[field].value = Null
                /\ Unwrap(cells[made.i].obj) = PointPrototype

\* A Point was constructed with no overrides over a binding whose Point had
\* an Integer written to its field x.
C11_Witness ==
    /\ HasExecuted
    /\ LastInstruction = Assign(A, NewPoint)
    /\ last_executed.r = "Ok"
    /\ Holds(before.environment, before.heap, "a")
    /\ Unwrap(before.heap[Bound(before.environment, "a").i].obj).members["x"].value.tag
           = "Integer"
    /\ Holds(call_environment, cells, "a")
    /\ Unwrap(cells[Bound(call_environment, "a").i].obj).members["x"].value = Null

-----------------------------------------------------------------------------
(* The expression parser on its own: ExpressionParser::parse applied to a
   token sequence (compiler/expression_parser.rs) *)

\* The longest token sequence handed to the parser.
MaxExpressionTokens == 4

\* The tokens the sequences are made of: an operand, binary operators of
\* three precedences, the unary operator and the parentheses.
ExpressionAlphabet ==
    {Identifier("a"), Operator("Plus"), Operator("Multiply"), Operator("Equality"),
     Operator("Not"), ParOpen, ParClose}
TokenSequences == UNION {[1..n -> ExpressionAlphabet] : n \in 0..MaxExpressionTokens}

InitParse ==
    /\ state = CompilerBaseStateNew
    /\ compiler_environment = CompilerEnvironmentNew
    /\ compile_error = None
    /\ runtime_object = None
    /\ pending = <<>>
    /\ fragments_fed = 0
    /\ last_inserted = None
    /\ body_braces = NoBraces
    /\ overflow_checks \in BOOLEAN
    /\ call_environment = EnvironmentDefault
    /\ cells = <<>>
    /\ last_executed = NothingExecuted
    /\ before = NothingBefore
    /\ steps = 0
    /\ running = None
    /\ parse_input \in TokenSequences
    /\ parse_output = None
    /\ LoadIdle
    /\ ExecuteIdle

\* ExpressionParser::parse(parse_input)
ParseExpression ==
    /\ ~IsSome(parse_output)
    /\ parse_output' = Some(Parse(parse_input))
    /\ UNCHANGED <<compile_vars, overflow_checks, runtime_vars, parse_input, load_vars,
                   execute_vars>>

NextParse == ParseExpression

SpecParse == InitParse /\ [][NextParse]_vars

\* The operand positions of a token sequence.  A binary operator is an
\* operator token other than Not; a token is at the top level when every
\* parenthesis opened before it is closed before it.
IsBinaryOperator(token) == token.k = "Operator" /\ token.s # "Not"
RECURSIVE Opened(_)
Opened(tokens) ==
    IF tokens = <<>> THEN 0
    ELSE Opened(Front(tokens))
         + (IF Last(tokens) = ParOpen THEN 1 ELSE IF Last(tokens) = ParClose THEN 0 - 1 ELSE 0)
TopLevel(tokens, n) == Opened(SubSeq(tokens, 1, n - 1)) = 0

EmptyGroup(tokens) ==
    \E n \in 1..(Len(tokens) - 1) :
        /\ TopLevel(tokens, n)
        /\ tokens[n] = ParOpen
        /\ tokens[n + 1] = ParClose
        /\ n = 1 \/ tokens[n - 1].k = "Operator"
        /\ n + 1 = Len(tokens) \/ tokens[n + 2].k = "Operator"
TrailingOperator(tokens) ==
    /\ tokens # <<>>
    /\ TopLevel(tokens, Len(tokens))
    /\ IsBinaryOperator(Last(tokens))
AdjacentOperators(tokens) ==
    \E n \in 1..(Len(tokens) - 1) :
        /\ TopLevel(tokens, n)
        /\ IsBinaryOperator(tokens[n])
        /\ IsBinaryOperator(tokens[n + 1])
LeadingOperator(tokens) == tokens # <<>> /\ IsBinaryOperator(tokens[1])

EmptyOperandPosition(tokens) ==
    \/ tokens = <<>>
    \/ EmptyGroup(tokens)
    \/ TrailingOperator(tokens)
    \/ AdjacentOperators(tokens)
    \/ LeadingOperator(tokens)

\* C12: parse returns a CompilerError for the empty token sequence and for
\* every expression with an empty operand position: an empty parenthesised
\* group, a trailing binary operator, two adjacent binary operators, a binary
\* operator with no left operand.
C12_EmptyOperandIsACompileError ==
    (IsSome(parse_output) /\ EmptyOperandPosition(parse_input)) =>
        Unwrap(parse_output).r = "Err"

-----------------------------------------------------------------------------
(* The loop of Compiler::compile over the file reader (compiler.rs 52-70,
   compiler/file_reader.rs) *)

\* A path is the sequence of the pieces its text is the concatenation of: the
\* characters of a location, an identifier, the separator, the extension.
\* PathBuf::join: an absolute path replaces the base; otherwise a separator is
\* put in unless the base is empty or ends with one, then the path follows.
PathJoin(base, path) ==
    IF path # <<>> /\ Head(path) = "/" THEN path
    ELSE IF base = <<>> \/ Last(base) = "/" THEN base \o path
    ELSE base \o <<"/">> \o path

\* The root_file_path the FileReader was made with.
RootFilePath == <<"root">>

\* The path FileReader::try_read_module reads for an ImportAddress.
ModuleLocation(module) ==
    PathJoin(IF IsSome(module.path) THEN PathJoin(RootFilePath, Unwrap(module.path))
             ELSE RootFilePath,
             <<module.module_id, ".otr">>)

\* The import declarations, with and without a location.  Their keywords are
\* made by the caller of Compiler::read; the rest is the tokens of their
\* text.
ImportDeclarations ==
    <<Import \o Tokens("A;"),
      Import \o Tokens("A") \o From \o Tokens("\"\";"),
      Import \o Tokens("A") \o From \o Tokens("\"lib\";"),
      Import \o Tokens("B;")>>

\* The number of import declarations read before Compiler::compile at most.
MaxImports == 3

\* The texts the files of the file system hold: nothing, a module, an import
\* declaration, a comment up to the end of the file, and a string literal
\* with an escape that is none.
SourceTexts == {"", "module A { }", "import A;", "# Main", "\"\\q\""}

\* Compiler::new on a FileReader the caller enqueued the root module in.
InitLoad ==
    /\ state = CompilerBaseStateNew
    /\ compiler_environment =
          [CompilerEnvironmentNew EXCEPT
              !.file_reader = Enqueue(@, [module_id |-> "Main", path |-> None])]
    /\ compile_error = None
    /\ runtime_object = None
    /\ pending = <<>>
    /\ fragments_fed = 0
    /\ last_inserted = None
    /\ body_braces = NoBraces
    /\ overflow_checks \in BOOLEAN
    /\ call_environment = EnvironmentDefault
    /\ cells = <<>>
    /\ last_executed = NothingExecuted
    /\ before = NothingBefore
    /\ steps = 0
    /\ running = None
    /\ ParseIdle
    /\ files_read = <<>>
    /\ ExecuteIdle

\* Before Compiler::compile is called, the caller hands the tokens of an
\* import declaration to Compiler::read.
Declaring ==
    /\ state.kind # "Dropped"
    /\ pending = <<>>
    /\ files_read = <<>>
    /\ fragments_fed < MaxImports
    /\ \E m \in 1..Len(ImportDeclarations) : pending' = ImportDeclarations[m]
    /\ fragments_fed' = fragments_fed + 1
    /\ UNCHANGED <<state, compiler_environment, compile_error, runtime_object, last_inserted,
                   body_braces, overflow_checks, runtime_vars, other_vars>>

\* One turn of the loop of Compiler::compile up to its reads: the front of
\* the queue is popped and its file is read (FileReader::dequeue), and the
\* text is fragmented and tokenized.  The file system answers with the text
\* of a file or with an error; a text that does not fragment ends the
\* compilation, with an error or with a panic.
Dequeue ==
    /\ state.kind # "Dropped"
    /\ pending = <<>>
    /\ compiler_environment.file_reader.queue # <<>>
    /\ files_read' =
          Append(files_read, ModuleLocation(Head(compiler_environment.file_reader.queue)))
    /\ \/ \E text \in SourceTexts :
             LET Tokenized(tokens) ==
                     IF tokens.r = "Ok"
                     THEN /\ pending' = tokens.v
                          /\ compiler_environment' =
                                [compiler_environment EXCEPT !.file_reader.queue = Tail(@)]
                          /\ UNCHANGED <<state, compile_error>>
                     ELSE /\ compile_error' = Some([r |-> tokens.r, message |-> tokens.v])
                          /\ state' = Dropped
                          /\ compiler_environment' = CompilerEnvironmentNew
                          /\ UNCHANGED pending
             IN  Tokenized(TokensOf(text))
       \/ /\ compile_error' = Some([r |-> "Err", message |-> "Module could not be loaded!"])
          /\ state' = Dropped
          /\ compiler_environment' = CompilerEnvironmentNew
          /\ UNCHANGED pending
    /\ UNCHANGED <<runtime_object, fragments_fed, last_inserted, body_braces, overflow_checks,
                   runtime_vars, parse_vars, execute_vars>>

\* The end of the loop of Compiler::compile: dequeue returned None.
Compiled == compiler_environment.file_reader.queue = <<>> /\ Finalize

NextLoad == Declaring \/ Dequeue \/ Read \/ Compiled

SpecLoad == InitLoad /\ [][NextLoad]_vars

\* C13: whatever import declarations are processed during a compilation,
\* no source file, identified by the location root/[path/]module_id.otr it
\* resolves to, is read from the file system more than once.
C13_NoFileIsReadTwice ==
    \A m, n \in 1..Len(files_read) : m # n => files_read[m] # files_read[n]

\* C14: a procedure or struct prototype that is not exported by its module
\* cannot be called or constructed from a procedure of another module: the
\* lookup fails with the not-exported RuntimeError.  From a procedure of the
\* same module it resolves whether exported or not, and exported members
\* resolve from every module.
C14_ExportsDecideReachability ==
    (HasExecuted /\ Running = "resolve") =>
        LET same_module == call_environment.contained_module_id = "Shapes"
        IN  /\ last_executed.index = 1 =>
                  IF same_module
                  THEN last_executed.r = "Ok"
                  ELSE /\ last_executed.r = "Err"
                       /\ last_executed.message = "Procedure is not exported by this module!"
            /\ last_executed.index = 2 =>
                  IF same_module
                  THEN last_executed.r = "Ok"
                  ELSE /\ last_executed.r = "Err"
                       /\ last_executed.message = "Struct is not exported by this module!"
            /\ last_executed.index \in {3, 4} => last_executed.r = "Ok"

\* Main::resolve called Shapes::hidden, or constructed Shapes::Inner, and failed.
C14_Witness ==
    /\ HasExecuted
    /\ Running = "resolve"
    /\ call_environment.contained_module_id = "Main"
    /\ last_executed.index \in {1, 2}
    /\ last_executed.r = "Err"

\* Shapes::resolve called Shapes::hidden and then constructed Shapes::Inner.
C14_SameModuleWitness ==
    /\ HasExecuted
    /\ Running = "resolve"
    /\ call_environment.contained_module_id = "Shapes"
    /\ last_executed.index = 2
    /\ last_executed.r = "Ok"
    /\ steps >= 2

-----------------------------------------------------------------------------
(* The compiler fed the declarations of modules: Compiler::read token by
   token and Compiler::finalize at any fragment boundary *)

\* The number of declaration fragments handed over at most.
MaxDeclarations == 8

EntrypointDecoration == Tokens("@entrypoint")
RunHeader == Tokens("proc run()")
MainHeader == Tokens("proc main()")

\* Fragments of declarations.  A fragment may end inside a declaration; the
\* body of a procedure is empty and comes in one fragment; the decorated
\* procedures are the ones named run.
Declarations ==
    <<ModuleHeader,
      Tokens("module Other {"),
      Tokens("@"),
      EntrypointDecoration \o RunHeader,
      EntrypointDecoration \o EntrypointDecoration \o RunHeader,
      MainHeader,
      Tokens("{ }"),
      BlockEnd,
      Tokens("struct S { x"),
      Import \o Tokens("A"),
      Tokens(";"),
      Tokens("export")>>

\* The caller of Compiler::read takes up the tokens of the next fragment of
\* declarations.
Declare ==
    /\ state.kind # "Dropped"
    /\ pending = <<>>
    /\ fragments_fed < MaxDeclarations
    /\ \E f \in 1..Len(Declarations) : pending' = Declarations[f]
    /\ fragments_fed' = fragments_fed + 1
    /\ UNCHANGED <<state, compiler_environment, compile_error, runtime_object, last_inserted,
                   body_braces, overflow_checks, runtime_vars, other_vars>>

NextDeclare == Declare \/ Read \/ Finalize

SpecDeclare == InitCompile /\ [][NextDeclare]_vars

\* The step is a call of Compiler::finalize: the compiler is consumed with no
\* token left to read.
Finalizes == state.kind # "Dropped" /\ pending = <<>> /\ state'.kind = "Dropped"
Failed(message) ==
    /\ compile_error' = Some([r |-> "Err", message |-> message])
    /\ runtime_object' = None

\* C15: finalize succeeds only when the current state is Base.  In a Module
\* state (before the brace, in scope or in an export list) and in a Procedure,
\* Struct, Decorator or Import state it returns a CompilerError and no
\* RuntimeObject is produced.
C15_FinalizeNeedsBase ==
    [][Finalizes =>
          /\ state.kind \in {"Module", "Procedure", "Struct", "Decorator", "Import"} =>
                Failed("Unfinished module declaration!")
          /\ IsSome(runtime_object') => state.kind = "Base"]_vars

\* finalize was called in a state other than Base and failed.
C15_Witness ==
    /\ state.kind = "Dropped"
    /\ fragments_fed > 0
    /\ compile_error = Some([r |-> "Err", message |-> "Unfinished module declaration!"])
    /\ runtime_object = None

\* The step is the read of the brace that ends the body of a procedure.
InsertsProcedure == state.kind = "Procedure" /\ state'.kind = "Module"
Entrypoints == compiler_environment.decorators

\* C16: every entrypoint decorator of a procedure is accumulated as the
\* ModuleAddress (module name, procedure name) of that procedure.  When more
\* than one was accumulated (on two procedures of any modules, or twice on
\* one procedure) finalize fails with the duplicate-entrypoint error and
\* produces no RuntimeObject; when exactly one was, the entrypoint of the
\* RuntimeObject is the address of the decorated procedure.
C16_OneEntrypoint ==
    [][/\ InsertsProcedure =>
             compiler_environment'.decorators =
                 Entrypoints \o [n \in 1..Len(state.procedure.decorators) |->
                                    ModuleAddress(Unwrap(state.module.module_name),
                                                  Unwrap(state.procedure.name))]
       /\ (Finalizes /\ state.kind = "Base") =>
             /\ Len(Entrypoints) > 1 => Failed("Duplicate entrypoint!")
             /\ Len(Entrypoints) = 1 =>
                   /\ UNCHANGED compile_error
                   /\ IsSome(runtime_object')
                   /\ Unwrap(runtime_object').entrypoint = Some(Entrypoints[1])
                   /\ Entrypoints[1].identifier = "run"
                   /\ Entrypoints[1].module_id \in {"Main", "Other"}
             /\ Len(Entrypoints) = 0 =>
                   /\ IsSome(runtime_object')
                   /\ Unwrap(runtime_object').entrypoint = None]_vars

\* A compilation with one decorated procedure, Other::run, was finalized.
C16_Witness ==
    /\ IsSome(runtime_object)
    /\ Unwrap(runtime_object).entrypoint = Some(ModuleAddress("Other", "run"))
    /\ "Main" \in DOMAIN Unwrap(runtime_object).base_environement.loaded_modules

\* A compilation with more than one entrypoint decorator was finalized.
C16_DuplicateWitness ==
    /\ state.kind = "Dropped"
    /\ compile_error = Some([r |-> "Err", message |-> "Duplicate entrypoint!"])
    /\ runtime_object = None

-----------------------------------------------------------------------------
(* A procedure body compiled and then called: Compiler::read over the
   statements of the body, CompiledProcedureBuilder::build at its closing
   brace, CompiledProcedure::call turn by turn (runtime/procedures.rs) *)

\* The number of statement fragments of a body at most.
MaxStatements == 7

BodyHeader == ModuleHeader \o Tokens("proc main(x) {")
ClearStatement == Tokens("x = false;")

\* The fragments a body is made of: the heads of the blocks, the closing
\* brace (of a block, or of the body), and an assignment to the condition.
Statements == <<IfHead, ElseHead, WhileHead, BlockEnd, ClearStatement>>

\* The caller of Compiler::read takes up the header of Main::main(x), then
\* the tokens of the next fragment of its body, until the body is closed.
Write ==
    /\ state.kind # "Dropped"
    /\ pending = <<>>
    /\ IF fragments_fed = 0 THEN pending' = BodyHeader
       ELSE /\ InBody(state)
            /\ fragments_fed <= MaxStatements
            /\ \E f \in 1..Len(Statements) : pending' = Statements[f]
    /\ fragments_fed' = fragments_fed + 1
    /\ UNCHANGED <<state, compiler_environment, compile_error, runtime_object, last_inserted,
                   body_braces, overflow_checks, runtime_vars, other_vars>>

\* The procedure build returned, as insert_procedure put it in the module.
Program == state.module.module.procedures[Unwrap(last_inserted).name].procedure

\* CompiledProcedure::call up to the loop: the argument, one of `values`, is
\* bound to x in the one frame of a new scope and pc is 0 (procedures.rs
\* 43-57).
EnterWith(values) ==
    /\ ~IsSome(running)
    /\ pending = <<>>
    /\ state.kind = "Module"
    /\ IsSome(last_inserted)
    /\ \E value \in values :
          LET opened == OpenSubenvironment(EnvironmentDefault, StackNew,
                                           ModuleAddress("Main", "main"))
              Inserted(bound) == call_environment' = bound.v /\ cells' = bound.heap
              Zipped(members) == Inserted(InsertMembers(opened, members.v, members.heap))
          IN  /\ Zipped(ZipMembers(Program.arguments_identifiers, <<value>>, EmptyMap,
                                   cells))
              /\ running' = Some([procedure_id |-> ModuleAddress("Main", "main"),
                                  arguments_identifiers |-> Program.arguments_identifiers,
                                  arguments |-> <<value>>])
    /\ program_counter' = 0
    /\ UNCHANGED <<compile_vars, overflow_checks, last_executed, before, steps, parse_vars,
                   load_vars>>

\* The call with a Bool for x.
Enter == EnterWith({Bool(b) : b \in BOOLEAN})

\* One turn of the loop of CompiledProcedure::call on the compiled body.
Turn ==
    /\ IsSome(running)
    /\ last_executed.r = "Ok"
    /\ program_counter < Len(Program.instructions)
    /\ LET Turned(executed) ==
               /\ call_environment' = executed.environment
               /\ cells' = executed.heap
               /\ program_counter' = executed.pc
               /\ last_executed' = [index |-> program_counter + 1, r |-> executed.r,
                                    message |-> executed.message,
                                    returned |-> executed.returned]
       IN  Turned(ExecuteInstruction(Program.instructions[program_counter + 1],
                                     call_environment, cells, program_counter))
    /\ UNCHANGED <<compile_vars, overflow_checks, before, steps, running, parse_vars,
                   load_vars>>

NextExecute == Write \/ Read \/ Enter \/ Turn

SpecExecute == InitCompile /\ [][NextExecute]_vars

\* C17: while a procedure that build returned is executed, the frame stack
\* of its scope is never empty, and when the loop falls off the end every
\* GrowStack executed was paired with a ShrinkStack: the base frame is the
\* only one left.
C17_BaseFrameStays ==
    IsSome(running) =>
        /\ Len(call_environment.scope) >= 1
        /\ (last_executed.r = "Ok" /\ program_counter >= Len(Program.instructions)) =>
              Len(call_environment.scope) = 1


\* What a binding holds, cells included: the value and, for every struct
\* found in it, what its cell holds.
SameContent(identifier) ==
    /\ Bound(call_environment, identifier) = Bound(before.environment, identifier)
    /\ \A c \in StructsIn(Bound(call_environment, identifier)) : cells[c] = before.heap[c]

\* C18: the read of an Array copies it.  After b = a with a an Array, a is
\* bound to what it was bound to, b holds an array of the same length that
\* shares no cell with a, and from then on a write to an element of b (or
\* to a field of an element of b) leaves a and its elements as they were, and
\* a write to an element of a leaves b and its elements as they were.  A
\* write is one that went through: one that fails ends the call.
C18_ArraysAreCopiedOnRead ==
    (HasExecuted /\ Running = "copy") =>
        /\ (last_executed.index = 1 /\ Bound(before.environment, "a").tag = "Array") =>
              /\ last_executed.r = "Ok"
              /\ SameContent("a")
              /\ Bound(call_environment, "b").tag = "Array"
              /\ Len(Bound(call_environment, "b").e) = Len(Bound(call_environment, "a").e)
              /\ \A n \in 1..Len(Bound(call_environment, "a").e) :
                    Bound(call_environment, "b").e[n].tag
                        = Bound(call_environment, "a").e[n].tag
              /\ StructsIn(Bound(call_environment, "a"))
                     \cap StructsIn(Bound(call_environment, "b")) = {}
        /\ (last_executed.index \in {2, 5} /\ last_executed.r = "Ok") => SameContent("a")
        /\ (last_executed.index \in {3, 4} /\ last_executed.r = "Ok") => SameContent("b")

\* A write to a field of a struct in the copy went through, and the array it
\* was copied from holds a struct whose field is still Null.
C18_Witness ==
    /\ HasExecuted
    /\ Running = "copy"
    /\ last_executed.index = 5
    /\ last_executed.r = "Ok"
    /\ Bound(call_environment, "a").tag = "Array"
    /\ Bound(call_environment, "a").e[1].tag = "Struct"
    /\ Unwrap(cells[Bound(call_environment, "a").e[1].i].obj).members["x"].value = Null
    /\ Unwrap(cells[Bound(call_environment, "b").e[1].i].obj).members["x"].value = Integer(5)

\* C19: equality of two StructRef values is by identity.  In equal, a and b
\* hold two structs in two cells: the comparison of a reference to a with a
\* reference to b yields false whatever the two structs hold, and the
\* comparison of two references to a yields true.
C19_StructRefEqualityIsIdentity ==
    (HasExecuted /\ Running = "equal" /\ last_executed.r = "Return") =>
        /\ Bound(before.environment, "a").i # Bound(before.environment, "b").i
        /\ last_executed.index = 1 => last_executed.returned = Bool(FALSE)
        /\ last_executed.index = 2 => last_executed.returned = Bool(TRUE)

\* The value the reference expression of instruction `index` of refer is
\* taken on: a, a.x or b[0], as they stood before the instruction.
ReferTarget(index) ==
    CASE index = 2 -> Bound(before.environment, "a")
      [] index = 3 ->
            Unwrap(before.heap[Bound(before.environment, "a").i].obj).members["x"].value
      [] index = 4 -> Bound(before.environment, "b").e[1]

\* C20: a reference expression on an address that resolves to a live Struct
\* returns a StructRef that observes that struct and leaves the cell of the
\* struct as it was, for the plain binding a as for the nested paths a.x and
\* b[0].
C20_ReferenceDoesNotMove ==
    (/\ HasExecuted
     /\ Running = "refer"
     /\ last_executed.index \in {2, 3, 4}
     /\ ReferTarget(last_executed.index).tag = "Struct"
     /\ IsSome(before.heap[ReferTarget(last_executed.index).i].obj)) =>
        /\ last_executed.r = "Return"
        /\ last_executed.returned = StructRef(ReferTarget(last_executed.index).i)
        /\ cells[ReferTarget(last_executed.index).i]
               = before.heap[ReferTarget(last_executed.index).i]

\* The value the clone expression of instruction `index` of duplicate is
\* taken on: a or a.x, as they stood before the instruction.
CloneTarget(index) ==
    CASE index = 1 -> Bound(before.environment, "a")
      [] index = 2 ->
            Unwrap(before.heap[Bound(before.environment, "a").i].obj).members["x"].value

\* C21: a clone expression on an address that resolves to a live Struct, the
\* plain binding a as the nested path a.x, returns a new Struct (bound to b
\* here) in a cell of its own whose contents equal those of the source, and
\* leaves the cell of the source as it was; a later write to a field of b
\* leaves a as it was, and a write to a field of a leaves b as it was.
C21_CloneCopiesAndKeepsTheSource ==
    (HasExecuted /\ Running = "duplicate") =>
        /\ (/\ last_executed.index \in {1, 2}
            /\ CloneTarget(last_executed.index).tag = "Struct"
            /\ IsSome(before.heap[CloneTarget(last_executed.index).i].obj)) =>
              /\ last_executed.r = "Ok"
              /\ Bound(call_environment, "b").tag = "Struct"
              /\ Bound(call_environment, "b").i # CloneTarget(last_executed.index).i
              /\ cells[CloneTarget(last_executed.index).i]
                     = before.heap[CloneTarget(last_executed.index).i]
              /\ CellEq(Bound(call_environment, "b").i,
                        CloneTarget(last_executed.index).i, cells)
        /\ (last_executed.index = 3 /\ Bound(before.environment, "b").tag = "Struct") =>
              SameContent("a")
        /\ (last_executed.index = 4 /\ Bound(before.environment, "b").tag = "Struct") =>
              SameContent("b")

\* C22: a struct construction may override a private field only where the
\* contained module is the module of the prototype.  Shapes::resolve
\* constructs a Point with its private field secret overridden; the same
\* construction in Main::resolve fails; the construction that overrides the
\* public field x succeeds in both.
C22_PrivateOverrideNeedsOwnModule ==
    (HasExecuted /\ Running = "resolve") =>
        /\ last_executed.index = 5 =>
              IF call_environment.contained_module_id = "Shapes"
              THEN last_executed.r = "Ok"
              ELSE last_executed.r = "Err"
        /\ last_executed.index = 6 => last_executed.r = "Ok"

\* C23: for every binary operator of the language the left operand is
\* evaluated before the right one.  In order both operands fail, each with
\* an error of its own: the statement fails with the error of the left
\* operand, the one that a.y alone fails with.
C23_LeftOperandFirst ==
    (HasExecuted /\ Running = "order") =>
        /\ last_executed.r = "Err"
        /\ last_executed.message
               = Eval(Parse(LeftOperand).v, before.environment, before.heap).v

\* The argument of the call of instruction `index` of argue that fails first,
\* counted from the left.
FirstFailing(index) ==
    CASE index = 1 -> Parse(RightOperand).v
      [] index = 2 -> Parse(LeftOperand).v
      [] index = 3 -> VariableExpression(Field(A, "secret"))

\* C24: the arguments of a call are evaluated in the environment of the
\* caller, from left to right, before the callee runs.  When an argument
\* fails, the call fails with the error that argument fails with in the scope
\* and the contained module of the caller, and poke has written nothing: the
\* call expression hands the environment of the caller and every cell back as
\* they were, the struct its first argument refers to among them.  When every
\* argument evaluates, poke runs and writes the field.
C24_ArgumentsBeforeTheCall ==
    (HasExecuted /\ Running = "argue") =>
        /\ last_executed.index \in {1, 2, 3} =>
              /\ last_executed.r = "Err"
              /\ last_executed.message
                     = Eval(FirstFailing(last_executed.index), before.environment,
                            before.heap).v
              /\ Handed.r = "Err"
              /\ Handed.heap = before.heap
              /\ Handed.environment = before.environment
        /\ last_executed.index = 4 =>
              /\ last_executed.r = "Ok"
              /\ Unwrap(cells[Bound(call_environment, "a").i].obj).members["x"].value
                     = Integer(9)

\* A call whose second argument failed after its first had evaluated, in a
\* state where an earlier call has run poke.
C24_Witness ==
    /\ HasExecuted
    /\ Running = "argue"
    /\ last_executed.index = 1
    /\ last_executed.r = "Err"
    /\ steps >= 2
    /\ Unwrap(before.heap[Bound(before.environment, "a").i].obj).members["x"].value
           = Integer(9)
    /\ Handed.heap = before.heap

\* The call failed on its left argument though the right one fails as well.
C24_LeftFirstWitness ==
    /\ HasExecuted
    /\ Running = "argue"
    /\ last_executed.index = 2
    /\ last_executed.r = "Err"
    /\ last_executed.message
           # Eval(Parse(RightOperand).v, before.environment, before.heap).v

-----------------------------------------------------------------------------
(* An if with its else, compiled and run: the tokens of a whole body of    *)
(* Main::main(x) go through Compiler::read, and CompiledProcedure::call    *)
(* runs the procedure turn by turn with x bound to a Bool                  *)

LetCount == Tokens("let t = 0;")
LetOther(name) == Tokens("let " \o name \o " = 1;")
Count(n) == Tokens("t = t + " \o n \o ";")
ReturnCount == Tokens("return t;")
IfCondition == If \o Tokens("(x) {")

\* What stands before and after the counting statement of a block: nothing, a
\* let of `name`, an assignment to the condition, an if, an if with its else.
Extras(name) ==
    <<<<>>, LetOther(name), ClearStatement, IfHead \o BlockEnd,
      IfHead \o BlockEnd \o ElseHead \o BlockEnd>>

\* The body: let t = 0; if (x) { .. t = t + 1; .. } else { .. t = t + 2; .. }
\* return t; and the closing brace of the procedure.
Branching(a1, a2, b1, b2) ==
    BodyHeader \o LetCount
        \o IfCondition \o Extras("y")[a1] \o Count("1") \o Extras("z")[a2] \o BlockEnd
        \o ElseHead \o Extras("y")[b1] \o Count("2") \o Extras("z")[b2] \o BlockEnd
        \o ReturnCount \o BlockEnd

\* The caller of Compiler::read takes up the tokens of one body.
Compose ==
    /\ state.kind # "Dropped"
    /\ pending = <<>>
    /\ fragments_fed = 0
    /\ \E a1, a2, b1, b2 \in 1..Len(Extras("y")) : pending' = Branching(a1, a2, b1, b2)
    /\ fragments_fed' = fragments_fed + 1
    /\ UNCHANGED <<state, compiler_environment, compile_error, runtime_object, last_inserted,
                   body_braces, overflow_checks, runtime_vars, other_vars>>

NextBranch == Compose \/ Read \/ Enter \/ Turn

SpecBranch == InitCompile /\ [][NextBranch]_vars

\* C25: of the two blocks of if (c) { A } else { B } exactly one runs, A when
\* c is Bool(true) and B when it is Bool(false), and execution goes on after
\* the else block in the frame the if stood in.  The body counts 1 in A and 2
\* in B and returns the count right after the else block: the call never
\* fails, the count returned is 1 for x = true and 2 for x = false, and the
\* return is executed with the base frame as the only frame.
C25_ExactlyOneBlockRuns ==
    IsSome(running) =>
        /\ last_executed.r \in {"Ok", "Return"}
        /\ last_executed.r = "Return" =>
              /\ last_executed.returned
                     = Integer(IF Unwrap(running).arguments[1].b THEN 1 ELSE 2)
              /\ Len(call_environment.scope) = 1
        /\ last_executed.r = "Ok" => program_counter < Len(Program.instructions)

\* The call with x = false returned from a body whose else block holds an if
\* with its else after the counting statement.
C25_Witness ==
    /\ IsSome(running)
    /\ ~Unwrap(running).arguments[1].b
    /\ last_executed.r = "Return"
    /\ last_executed.returned = Integer(2)
    /\ Len(Program.instructions) > 20

\* The places that hold the cell: a binding of a frame, or a field of a
\* struct that is still in its cell.
Holders(cell) ==
    UNION {{<<"binding", f, identifier>> :
               identifier \in {name \in DOMAIN call_environment.scope[f] :
                                  cell \in StructsIn(call_environment.scope[f][name])}} :
              f \in 1..Len(call_environment.scope)}
    \cup UNION {{<<"field", c, field>> :
                    field \in {name \in DOMAIN Unwrap(cells[c].obj).members :
                        cell \in StructsIn(Unwrap(cells[c].obj).members[name].value)}} :
                   c \in {d \in 1..Len(cells) : IsSome(cells[d].obj)}}

\* The binding the struct moves from and the binding it moves to in the
\* instructions of hand that move a whole struct.
MoveSource(index) == IF index = 2 THEN "b" ELSE "a"
MoveTarget(index) == CASE index = 1 -> "b" [] index = 2 -> "a" [] index = 7 -> "q"

\* C26: a struct is owned by one binding at most, and a move hands over its
\* contents unchanged.  At every point of every call no cell is held in two
\* places; and when an instruction of hand moves the live struct from one
\* binding to another, the target then holds a struct whose contents are
\* those the source held before, and the source is in the moved state.
C26_OneOwnerAndMovesKeepContents ==
    /\ IsSome(running) =>
          \A cell \in 1..Len(cells) : Cardinality(Holders(cell)) <= 1
    /\ (/\ HasExecuted
        /\ Running = "hand"
        /\ last_executed.index \in {1, 2, 7}
        /\ last_executed.r = "Ok"
        /\ Bound(before.environment, MoveSource(last_executed.index)).tag = "Struct") =>
          LET source == Bound(before.environment, MoveSource(last_executed.index))
              target == Bound(call_environment, MoveTarget(last_executed.index))
          IN  /\ IsSome(before.heap[source.i].obj)
              /\ target.tag = "Struct"
              /\ target.i # source.i
              /\ cells[target.i].obj = before.heap[source.i].obj
              /\ Bound(call_environment, MoveSource(last_executed.index)) = source
              /\ ~IsSome(cells[source.i].obj)

\* The struct in a, with a struct in its field x, went to b, back to a and
\* then to q.
C26_Witness ==
    /\ HasExecuted
    /\ Running = "hand"
    /\ last_executed.index = 7
    /\ last_executed.r = "Ok"
    /\ steps >= 4
    /\ Bound(call_environment, "q").tag = "Struct"
    /\ Unwrap(cells[Bound(call_environment, "q").i].obj).members["x"].value.tag = "Struct"
    /\ ~IsSome(cells[Bound(call_environment, "a").i].obj)
    /\ ~IsSome(cells[Bound(call_environment, "b").i].obj)

\* The read of the brace that opens an else block: the builder has accepted
\* the else and holds the index of the JumpConditional of the if.
OpensElse ==
    /\ InBody(state)
    /\ pending # <<>>
    /\ Head(pending) = CurlyOpen
    /\ state.procedure.procedure.state.st = "ElseStatement"

\* C27: when the brace of an accepted else is read, the builder emits the
\* bridge and the GrowStack of the else block, and the JumpConditional of the
\* if then targets that GrowStack, the instruction right after the bridge,
\* whatever was emitted between the closing brace of the if block and the
\* else.
C27_ElseEntersItsBlock ==
    [][(OpensElse /\ InBody(state')) =>
          LET builder == state.procedure.procedure
              emitted == Len(builder.procedure.instructions)
              instructions == state'.procedure.procedure.procedure.instructions
          IN  /\ Len(instructions) = emitted + 2
              /\ instructions[emitted + 1].op = "JumpConditional"
              /\ instructions[emitted + 2].op = "GrowStack"
              /\ instructions[builder.state.original_jump + 1].jump_target = emitted + 1]_vars

-----------------------------------------------------------------------------
(* The fold of ExpressionParser::parse on chains of operands and operators *)
(* (compiler/expression_parser.rs)                                         *)

\* The number of operators of a chain at most.
MaxOperators == 3

\* The operands of a chain, in their order, and the binary operators between
\* them: every precedence of the table, two operators of the same precedence,
\* and derived comparisons.
ChainOperands == <<"a", "b", "c", "d", "e">>
ChainOperators ==
    {"Plus", "Minus", "Or", "Multiply", "And", "Modulo", "Power", "Equality", "Less",
     "GreaterEquals"}
OperatorChains == UNION {[1..n -> ChainOperators] : n \in 1..MaxOperators}

\* a op1 b op2 c ..
RECURSIVE Chain(_)
Chain(operators) ==
    IF operators = <<>> THEN <<Identifier(ChainOperands[1])>>
    ELSE Chain(Front(operators))
         \o <<Operator(Last(operators)), Identifier(ChainOperands[Len(operators) + 1])>>

\* The parser before it is handed one of the token sequences of `inputs`.
ParserGiven(inputs) ==
    /\ state = CompilerBaseStateNew
    /\ compiler_environment = CompilerEnvironmentNew
    /\ compile_error = None
    /\ runtime_object = None
    /\ pending = <<>>
    /\ fragments_fed = 0
    /\ last_inserted = None
    /\ body_braces = NoBraces
    /\ overflow_checks \in BOOLEAN
    /\ call_environment = EnvironmentDefault
    /\ cells = <<>>
    /\ last_executed = NothingExecuted
    /\ before = NothingBefore
    /\ steps = 0
    /\ running = None
    /\ parse_input \in inputs
    /\ parse_output = None
    /\ LoadIdle
    /\ ExecuteIdle

InitFold == ParserGiven({Chain(operators) : operators \in OperatorChains})

NextFold == ParseExpression

SpecFold == InitFold /\ [][NextFold]_vars

\* The operators of a chain of tokens, in their order.
OperatorsOf(tokens) == [n \in 1..(Len(tokens) \div 2) |-> tokens[2 * n].s]

\* The operator a precedence parser makes the root of the tree: the last of
\* the operators of the lowest precedence.
RootOperator(operators) ==
    CHOOSE k \in 1..Len(operators) :
        /\ \A j \in 1..Len(operators) :
               GetPrecedence(operators[j]) >= GetPrecedence(operators[k])
        /\ \A j \in (k + 1)..Len(operators) :
               GetPrecedence(operators[j]) > GetPrecedence(operators[k])

\* The tree of a precedence parser over the operands first..(first +
\* Len(operators)) of the chain.
RECURSIVE ReferenceTree(_, _)
ReferenceTree(first, operators) ==
    IF operators = <<>>
    THEN VariableExpression(<<AddrIdentifier(ChainOperands[first])>>)
    ELSE LET k == RootOperator(operators)
         IN  ResolveBinaryOperator(
                 operators[k],
                 ReferenceTree(first, SubSeq(operators, 1, k - 1)),
                 ReferenceTree(first + k, SubSeq(operators, k + 1, Len(operators)))).v

\* C28: the fold of a chain of operands separated by binary operators gives
\* the tree of a precedence parser: operators of higher precedence are folded
\* first, operators of the same precedence from left to right, and the one
\* atom left holds every operand.
C28_FoldIsPrecedenceParse ==
    IsSome(parse_output) =>
        Unwrap(parse_output) = Ok(ReferenceTree(1, OperatorsOf(parse_input)))

\* a + b * c - d was parsed: the product is the right operand of the sum,
\* and the sum the left operand of the difference.
C28_Witness ==
    /\ IsSome(parse_output)
    /\ OperatorsOf(parse_input) = <<"Plus", "Multiply", "Minus">>
    /\ Unwrap(parse_output).r = "Ok"
    /\ Unwrap(parse_output).v.x = "Subtract"
    /\ Unwrap(parse_output).v.v[1].x = "Add"
    /\ Unwrap(parse_output).v.v[1].v[2].x = "Multiply"

-----------------------------------------------------------------------------
(* The fold on chains in which operands are negated *)

\* The boolean chains a, a op b, a op b op c with any of the operands
\* preceded by the unary operator.
BooleanChains == UNION {[1..n -> {"And", "Or"}] : n \in 1..(MaxOperators - 1)}
RECURSIVE NegatedChain(_, _)
NegatedChain(operators, negated) ==
    LET operand == ChainOperands[Len(operators) + 1]
        atom == IF operand \in negated
                THEN <<Operator("Not"), Identifier(operand)>>
                ELSE <<Identifier(operand)>>
    IN  IF operators = <<>> THEN atom
        ELSE NegatedChain(Front(operators), negated) \o <<Operator(Last(operators))>> \o atom
NegatedChains ==
    {NegatedChain(operators, negated) :
        operators \in BooleanChains, negated \in SUBSET {"a", "b", "c"}}

InitNegation == ParserGiven(NegatedChains)

NextNegation == ParseExpression

SpecNegation == InitNegation /\ [][NextNegation]_vars

\* The chain without its unary operators, and the operands that one precedes.
IsNot(token) == token = Operator("Not")
IsNoNot(token) == ~IsNot(token)
Negated(tokens) == {tokens[n + 1].s : n \in {m \in 1..(Len(tokens) - 1) : IsNot(tokens[m])}}

\* The tree of a precedence parser in which the unary operator wraps the
\* operand to its right and nothing else.
RECURSIVE NegatedTree(_, _, _)
NegatedTree(first, operators, negated) ==
    IF operators = <<>>
    THEN LET operand == VariableExpression(<<AddrIdentifier(ChainOperands[first])>>)
         IN  IF ChainOperands[first] \in negated THEN NotExpression(operand) ELSE operand
    ELSE LET k == RootOperator(operators)
         IN  ResolveBinaryOperator(
                 operators[k],
                 NegatedTree(first, SubSeq(operators, 1, k - 1), negated),
                 NegatedTree(first + k, SubSeq(operators, k + 1, Len(operators)),
                             negated)).v

\* C29: a unary ! at any position of an expression takes the atom to its
\* right and nothing else: the parse of !a && b, a && !b, a || !b && c and of
\* the other chains succeeds, each ! wraps its right neighbour, and the binary
\* operators are folded over all the operands as they are without the !.
C29_NotTakesItsRightNeighbour ==
    IsSome(parse_output) =>
        /\ Unwrap(parse_output).r = "Ok"
        /\ Unwrap(parse_output).v
               = NegatedTree(1, OperatorsOf(SelectSeq(parse_input, IsNoNot)),
                             Negated(parse_input))

\* C30: on Integers the trees built for the derived operators evaluate to
\* the comparison of the two numbers: a < b, a <= b, a >= b, and a != b as
\* the negation of a == b.
C30_DerivedComparisons ==
    (HasExecuted /\ Running = "compare") =>
        LET a == Bound(before.environment, "a").i
            b == Bound(before.environment, "b").i
            compared == Comparisons[last_executed.index]
        IN  /\ last_executed.r = "Return"
            /\ last_executed.returned.tag = "Bool"
            /\ last_executed.returned.b =
                  CASE compared = "Less" -> a < b
                    [] compared = "LessEquals" -> a <= b
                    [] compared = "GreaterEquals" -> a >= b
                    [] compared = "Inequality" -> a # b
                    [] compared = "Greater" -> a > b
                    [] compared = "Equality" -> a = b

\* a <= b was evaluated for two equal Integers and gave true.
C30_Witness ==
    /\ HasExecuted
    /\ Running = "compare"
    /\ Comparisons[last_executed.index] = "LessEquals"
    /\ Bound(before.environment, "a") = Integer(1)
    /\ Bound(before.environment, "b") = Integer(1)
    /\ last_executed.returned = Bool(TRUE)

-----------------------------------------------------------------------------
(* Frames of the scope stack *)

\* The frames of the running call before and after the instruction executed
\* last.
FramesBefore == before.environment.scope
FramesAfter == call_environment.scope
PushedLast ==
    /\ HasExecuted
    /\ Running = "scopes"
    /\ LastInstruction.op = "PushVarToScope"
    /\ FramesBefore # <<>>

\* C31: on a stack that has a frame, PushVarToScope(id) fails exactly when
\* id is bound in the top frame, also when that binding is a parameter in the
\* base frame; a binding of id in a lower frame does not prevent the push,
\* and a push that succeeds adds id = Null to the top frame and changes
\* nothing else.
C31_PushFailsOnlyInTheTopFrame ==
    PushedLast =>
        LET id == LastInstruction.identifier
            top == Len(FramesBefore)
        IN  /\ last_executed.r \in {"Ok", "Err"}
            /\ last_executed.r = "Err" <=> id \in DOMAIN FramesBefore[top]
            /\ last_executed.r = "Ok" =>
                  /\ Len(FramesAfter) = top
                  /\ \A n \in 1..(top - 1) : FramesAfter[n] = FramesBefore[n]
                  /\ DOMAIN FramesAfter[top] = DOMAIN FramesBefore[top] \cup {id}
                  /\ FramesAfter[top][id] = Null
                  /\ \A k \in DOMAIN FramesBefore[top] :
                        FramesAfter[top][k] = FramesBefore[top][k]

\* The parameter a was declared again in a frame above the base frame,
\* which still binds it to the argument.
C31_Witness ==
    /\ PushedLast
    /\ LastInstruction.identifier = "a"
    /\ last_executed.r = "Ok"
    /\ Len(FramesAfter) = 2
    /\ FramesAfter[1]["a"] = Integer(1)
    /\ FramesAfter[2]["a"] = Null

\* The push of the parameter a failed in the base frame.
C31_BaseFrameWitness ==
    /\ PushedLast
    /\ LastInstruction.identifier = "a"
    /\ last_executed.r = "Err"
    /\ Len(FramesBefore) = 1

\* The frames that bind an identifier, and whether frame n is the innermost
\* of them.
Binding(frames, id) == {n \in 1..Len(frames) : id \in DOMAIN frames[n]}
Innermost(frames, id, n) ==
    n \in Binding(frames, id) /\ \A m \in Binding(frames, id) : m <= n
InScopes == HasExecuted /\ Running = "scopes"
Named == Head(Unwrap(LastInstruction.target)).v
Wrote == InScopes /\ LastInstruction.op = "EvaluateExpression" /\ FramesBefore # <<>>
ReadName == InScopes /\ LastInstruction.op = "Return"
Shrank == InScopes /\ LastInstruction.op = "ShrinkStack" /\ FramesBefore # <<>>

\* C32: a write to a name changes the binding of the innermost frame that
\* binds it and no other binding, a read gives the value of that binding,
\* and both fail when no frame binds the name; ShrinkStack removes the top
\* frame with the names declared in it and leaves the frames below, and with
\* them the bindings that were shadowed, as they were.
C32_InnermostBindingIsUsed ==
    /\ Wrote =>
          /\ last_executed.r = "Err" <=> Binding(FramesBefore, Named) = {}
          /\ last_executed.r = "Err" => FramesAfter = FramesBefore
          /\ last_executed.r = "Ok" =>
                /\ Len(FramesAfter) = Len(FramesBefore)
                /\ \A n \in 1..Len(FramesBefore) :
                      /\ DOMAIN FramesAfter[n] = DOMAIN FramesBefore[n]
                      /\ \A k \in DOMAIN FramesBefore[n] :
                            FramesAfter[n][k] =
                                IF k = Named /\ Innermost(FramesBefore, Named, n)
                                THEN LastInstruction.expression.v
                                ELSE FramesBefore[n][k]
    /\ ReadName =>
          LET id == Head(LastInstruction.expression.v).v
          IN  /\ last_executed.r = "Err" <=> Binding(FramesBefore, id) = {}
              /\ last_executed.r = "Return" =>
                    \E n \in 1..Len(FramesBefore) :
                        /\ Innermost(FramesBefore, id, n)
                        /\ last_executed.returned = FramesBefore[n][id]
    /\ Shrank =>
          /\ last_executed.r = "Ok"
          /\ Len(FramesAfter) = Len(FramesBefore) - 1
          /\ \A n \in 1..Len(FramesAfter) : FramesAfter[n] = FramesBefore[n]

\* The block that shadowed a, wrote 5 to it and declared q was left: a is
\* bound to the argument again and q is bound nowhere.
C32_Witness ==
    /\ Shrank
    /\ Len(FramesBefore) = 2
    /\ {"a", "q"} \subseteq DOMAIN FramesBefore[2]
    /\ FramesBefore[2]["a"] = Integer(5)
    /\ FramesAfter[1]["a"] = Integer(1)
    /\ Binding(FramesAfter, "q") = {}

\* The shadowing a was written while the a below kept the argument.
C32_ShadowWitness ==
    /\ Wrote
    /\ Named = "a"
    /\ Len(FramesAfter) = 2
    /\ "a" \in DOMAIN FramesAfter[2]
    /\ FramesAfter[2]["a"] = Integer(5)
    /\ FramesAfter[1]["a"] = Integer(1)

-----------------------------------------------------------------------------
(* A while loop compiled and run: the tokens of a whole body of Main::main(x)
   go through Compiler::read, and CompiledProcedure::call runs the procedure
   turn by turn with x bound to the number of iterations *)

\* The loop is run for up to MaxIterations iterations.
MaxIterations == 3

\* The statements of the body, as the tokens the tokenizer yields for their
\* texts.  The loop runs until its counter is the limit.
LetOf(name, literal) == Tokens("let " \o name \o " = " \o literal \o ";")
WhileNot(name, limit) == Tokens("while (" \o name \o " != " \o limit \o ") {")
Increment(name) == Tokens(name \o " = " \o name \o " + 1;")
ReturnOf(name) == Tokens("return " \o name \o ";")

\* What stands in the loop between its let and its increment: nothing, a
\* second let, an inner loop that is not entered, and an inner loop of two
\* iterations that declares y again.
LoopExtras ==
    <<<<>>,
      LetOf("z", "1"),
      WhileNot("n", "n") \o LetOf("y", "1") \o BlockEnd,
      LetOf("m", "0") \o WhileNot("m", "2") \o LetOf("y", "1")
          \o Increment("m") \o BlockEnd>>

\* The body: let n = 0; while (n != x) { let y = 1; .. n = n + 1; } return n;
\* and the closing brace of the procedure.
Looping(extra) ==
    BodyHeader \o LetOf("n", "0")
        \o WhileNot("n", "x") \o LetOf("y", "1") \o LoopExtras[extra]
        \o Increment("n") \o BlockEnd
        \o ReturnOf("n") \o BlockEnd

\* The tokenizer hands over the tokens of one body with a loop.
ComposeLoop ==
    /\ state.kind # "Dropped"
    /\ pending = <<>>
    /\ fragments_fed = 0
    /\ \E extra \in 1..Len(LoopExtras) : pending' = Looping(extra)
    /\ fragments_fed' = fragments_fed + 1
    /\ UNCHANGED <<state, compiler_environment, compile_error, runtime_object, last_inserted,
                   body_braces, overflow_checks, runtime_vars, other_vars>>

\* The call with the number of iterations for x.
EnterLoop == EnterWith({Integer(k) : k \in 0..MaxIterations})

NextLoop == ComposeLoop \/ Read \/ EnterLoop \/ Turn

SpecLoop == InitCompile /\ [][NextLoop]_vars

\* The number of instructions of one kind among the first `count`.
RECURSIVE CountOp(_, _, _)
CountOp(instructions, op, count) ==
    IF count = 0 THEN 0
    ELSE CountOp(instructions, op, count - 1)
             + (IF instructions[count].op = op THEN 1 ELSE 0)

\* The frames a pc stands in by the text of the procedure: the base frame and
\* one frame per block opened and not closed before it.
FramesAt(pc) ==
    1 + CountOp(Program.instructions, "GrowStack", pc)
      - CountOp(Program.instructions, "ShrinkStack", pc)

\* C33: every iteration of a while body runs in a frame of its own.  In a
\* body whose loop declares y in each of its x iterations, no instruction
\* fails, so that no let of a later iteration finds its name already
\* present; the number of frames is at every pc the number of blocks that
\* are open there, so that it is after the loop what it was before it; and
\* the count returned is x, for x = 0 as well.
C33_IterationsHaveFreshFrames ==
    IsSome(running) =>
        /\ compile_error = None
        /\ last_executed.r \in {"Ok", "Return"}
        /\ Len(call_environment.scope) = FramesAt(program_counter)
        /\ last_executed.r = "Return" =>
              /\ last_executed.returned = Unwrap(running).arguments[1]
              /\ Len(call_environment.scope) = 1

\* The loop with the inner loop in it was left after MaxIterations
\* iterations.
C33_Witness ==
    /\ IsSome(running)
    /\ last_executed.r = "Return"
    /\ last_executed.returned = Integer(MaxIterations)
    /\ CountOp(Program.instructions, "GrowStack", Len(Program.instructions)) = 2
    /\ Len(call_environment.scope) = 1

\* The loop was not entered: the call with x = 0 returned 0.
C33_ZeroWitness ==
    /\ IsSome(running)
    /\ last_executed.r = "Return"
    /\ last_executed.returned = Integer(0)

-----------------------------------------------------------------------------
(* The members of a module declared and exported: Compiler::read over
   procedure declarations, struct declarations and export lists
   (compiler/states/module.rs, runtime/module.rs) *)

\* The number of declarations and export lists of the module at most.
MaxMembers == 4

ProcOf(name) == Tokens("proc " \o name \o "() { }")
StructOf(name) == Tokens("struct " \o name \o " { x }")
ExportOne(name) == Tokens("export " \o name \o ";")
ExportTwo(first, second) == Tokens("export " \o first \o ", " \o second \o ";")

\* What stands in the module: procedures f and g, structs S and f, and
\* export lists of declared names and of the name h that is never declared.
MemberDeclarations ==
    <<ProcOf("f"), ProcOf("g"), StructOf("S"), StructOf("f"), ExportOne("f"),
      ExportOne("S"), ExportTwo("g", "S"), ExportOne("h"), ExportTwo("f", "h")>>

\* The tokenizer hands over the header of the module, then the tokens of its
\* next declaration or export list.
DeclareMember ==
    /\ state.kind # "Dropped"
    /\ pending = <<>>
    /\ IF fragments_fed = 0 THEN pending' = ModuleHeader
       ELSE /\ fragments_fed <= MaxMembers
            /\ \E f \in 1..Len(MemberDeclarations) : pending' = MemberDeclarations[f]
    /\ fragments_fed' = fragments_fed + 1
    /\ UNCHANGED <<state, compiler_environment, compile_error, runtime_object, last_inserted,
                   body_braces, overflow_checks, runtime_vars, other_vars>>

NextExport == DeclareMember \/ Read

SpecExport == InitCompile /\ [][NextExport]_vars

\* The module being declared, and the module one read later.
Declared == state.module.module
DeclaredNext == state'.module.module

\* The step reads a name of an export list.
ExportsName ==
    /\ state.kind = "Module"
    /\ state.module.substate = "Export"
    /\ pending # <<>>
    /\ Head(pending).k = "Identifier"
\* The step reads the closing brace that ends a declaration.
DeclaresProcedure == state.kind = "Procedure" /\ state'.kind = "Module"
DeclaresStruct == state.kind = "Struct" /\ state'.kind = "Module"

\* The export flags of the members of one kind after the step: those of the
\* names in `set` are `flag`, the others are what they were.
FlagsAfter(members, members_next, set, flag) ==
    /\ DOMAIN members_next = DOMAIN members \cup set
    /\ \A name \in DOMAIN members_next :
          members_next[name].exported =
              IF name \in set THEN flag ELSE members[name].exported

\* C34: a procedure and a struct prototype are not exported when they are
\* declared; a name of an export list that is declared in the module sets
\* exported to true for each member of that name and leaves the other
\* members as they are; a name that is not declared fails the compilation.
C34_ExportSetsEachNamedMember ==
    [][/\ DeclaresProcedure =>
             /\ FlagsAfter(Declared.procedures, DeclaredNext.procedures,
                           {Unwrap(state.procedure.name)}, FALSE)
             /\ DeclaredNext.struct_prototypes = Declared.struct_prototypes
       /\ DeclaresStruct =>
             /\ FlagsAfter(Declared.struct_prototypes, DeclaredNext.struct_prototypes,
                           {Unwrap(state.struct.identifier)}, FALSE)
             /\ DeclaredNext.procedures = Declared.procedures
       /\ ExportsName =>
             LET name == Head(pending).s
                 named_procedures == {name} \cap DOMAIN Declared.procedures
                 named_structs == {name} \cap DOMAIN Declared.struct_prototypes
             IN  IF named_procedures \cup named_structs = {}
                 THEN /\ state'.kind = "Dropped"
                      /\ compile_error' = Some([r |-> "Err", message |-> "Member not found!"])
                 ELSE /\ state'.kind = "Module"
                      /\ UNCHANGED compile_error
                      /\ FlagsAfter(Declared.procedures, DeclaredNext.procedures,
                                    named_procedures, TRUE)
                      /\ FlagsAfter(Declared.struct_prototypes,
                                    DeclaredNext.struct_prototypes, named_structs, TRUE)
      ]_vars

-----------------------------------------------------------------------------
(* Decorators before a procedure: Compiler::read over @, identifiers and
   proc in a module (compiler/states/decorator.rs) *)

\* The number of fragments of decorations handed over at most.
MaxDecorations == 6

\* What stands in the module: an @, the name of a decorator, the
\* declaration of a procedure, and a token no decoration has.
Decorations ==
    <<Tokens("@"), Tokens("entrypoint"), RunHeader \o Tokens("{ }"), Tokens(";")>>

\* The tokenizer hands over the header of the module, then the tokens of the
\* next fragment.
Decorate ==
    /\ state.kind # "Dropped"
    /\ pending = <<>>
    /\ IF fragments_fed = 0 THEN pending' = ModuleHeader
       ELSE /\ fragments_fed <= MaxDecorations
            /\ \E f \in 1..Len(Decorations) : pending' = Decorations[f]
    /\ fragments_fed' = fragments_fed + 1
    /\ UNCHANGED <<state, compiler_environment, compile_error, runtime_object, last_inserted,
                   body_braces, overflow_checks, runtime_vars, other_vars>>

NextDecorate == Decorate \/ Read

SpecDecorate == InitCompile /\ [][NextDecorate]_vars

\* The step is a read in the Decorator state.  The state was entered by an
\* @; it has read num_decorators of them and Len(decorators) names.
ReadsInDecorator == state.kind = "Decorator" /\ pending # <<>>
AfterAt == Len(state.decorator.decorators) < state.decorator.num_decorators
Rejected == state'.kind = "Dropped" /\ compile_error' # None /\ compile_error'[1].r = "Err"
Accepted == state'.kind # "Dropped" /\ UNCHANGED compile_error

\* C35: in the Decorator state @ and identifier alternate strictly, and proc
\* is accepted only after a complete @identifier pair: directly after an @
\* (as in @ proc and in @a @ proc) it is rejected with a CompilerError.
C35_ProcNeedsACompletePair ==
    [][ReadsInDecorator =>
          LET token == Head(pending)
          IN  /\ token = At => IF AfterAt THEN Rejected ELSE Accepted
              /\ token.k = "Identifier" => IF AfterAt THEN Accepted ELSE Rejected
              /\ token = Keyword("Proc") =>
                    IF AfterAt THEN Rejected
                    ELSE Accepted /\ state'.kind = "Procedure"
              /\ token = Semicolon => Rejected]_vars

-----------------------------------------------------------------------------
(* The environment of a call and the environment of its caller *)

InIsolate == HasExecuted /\ Running = "isolate"
FreshlyCalled == IsSome(running) /\ last_executed = NothingExecuted

\* The cells of the structs the caller owned before the instruction executed
\* last: the ones its frames were bound to, as they are or inside an array,
\* and the ones the fields of those own.
CallerCells ==
    UNION {UNION {OwnedThrough(FramesBefore[n][k], before.heap) :
                     k \in DOMAIN FramesBefore[n]} :
              n \in 1..Len(FramesBefore)}

\* The names the call executed last takes as arguments of one kind: read as
\* a variable (which moves a Struct out of its binding) or referred to.
NamesTaken(kind) ==
    LET arguments == LastInstruction.expression.v.arguments
    IN  {Head(arguments[n].v).v :
            n \in {m \in 1..Len(arguments) : arguments[m].x = kind}}
MovedToCallee(cell) ==
    \E name \in NamesTaken("Variable") :
       /\ Bound(before.environment, name).tag = "Struct"
       /\ ~IsSome(cells[Bound(before.environment, name).i].obj)
       /\ cell \in OwnedThrough(Bound(before.environment, name), before.heap)
ReferredToCallee(cell) ==
    \E name \in NamesTaken("Reference") :
       cell \in OwnedThrough(Bound(before.environment, name), before.heap)

\* The environment a call starts in: the module of the callee, the modules
\* of the caller and one frame that binds the parameters to the arguments.
StartsFresh ==
    FreshlyCalled =>
        LET identifiers == Unwrap(running).arguments_identifiers
            arguments == Unwrap(running).arguments
            bound == {n \in 1..Len(identifiers) : n <= Len(arguments)}
        IN  /\ call_environment.contained_module_id = Unwrap(running).procedure_id.module_id
            /\ call_environment.loaded_modules = before.environment.loaded_modules
            /\ Len(call_environment.scope) = 1
            /\ DOMAIN call_environment.scope[1] = {identifiers[n] : n \in bound}
            /\ \A n \in bound : call_environment.scope[1][identifiers[n]] = arguments[n]

\* What a callee cannot do and what a call leaves of its caller, but for the
\* structs of the caller in `excepted`: the callees that read b and write a
\* fail to find them, the callee that reads a private field of Shapes reads
\* it, and after a call that returned a value the caller has its module, its
\* modules, its frames and the contents of its structs as before.  A call
\* that returned an error ends the caller as well.
Isolated(excepted) ==
    InIsolate =>
        /\ last_executed.index \in {1, 2} =>
              /\ last_executed.r = "Err"
              /\ last_executed.message = "Could not find the variable in this scope!"
        /\ last_executed.index \in {3, 4} => last_executed.r = "Ok"
        /\ last_executed.r = "Ok" =>
              /\ call_environment.contained_module_id = "Main"
              /\ call_environment.loaded_modules = before.environment.loaded_modules
              /\ FramesAfter = FramesBefore
              /\ \A cell \in CallerCells \ excepted : cells[cell] = before.heap[cell]

C36_MovedWitness ==
    /\ InIsolate
    /\ last_executed.index = 5
    /\ last_executed.r = "Ok"
    /\ IsSome(before.heap[Bound(before.environment, "a").i].obj)
    /\ ~IsSome(cells[Bound(call_environment, "a").i].obj)

-----------------------------------------------------------------------------
(* Termination of Compiler::compile *)

\* The caller and the loop of Compiler::compile are sequential code:
\* whenever there is a next step, it is taken.
SpecLoadFair == SpecLoad /\ WF_vars(NextLoad)

\* The import addresses of the compilation: the root module and the ones
\* the import declarations name.
ImportAddresses ==
    {[module_id |-> "Main", path |-> None],
     [module_id |-> "A", path |-> None],
     [module_id |-> "A", path |-> Some(<<>>)],
     [module_id |-> "A", path |-> Some(<<"l", "i", "b">>)],
     [module_id |-> "B", path |-> None]}

FileReader == compiler_environment.file_reader
Queued(queue) == {queue[n] : n \in 1..Len(queue)}

\* The step leaves the compiler running and enqueues `module`.
Enqueues(module) ==
    /\ state'.kind # "Dropped"
    /\ compiler_environment'.file_reader.queue = Append(FileReader.queue, module)

\* C37: Compiler::compile terminates for every set of source files and
\* every sequence of import declarations read, repeated ones included.  An
\* import address that is enqueued was never enqueued before, whether it is
\* still in the queue or was dequeued: read_modules holds every address ever
\* enqueued and never loses one.  The files read and the addresses waiting
\* are together the addresses enqueued, so that no more files are compiled
\* than there are distinct import addresses; and the loop ends, with a
\* RuntimeObject or with an error.
C37_CompileTerminates ==
    /\ [][/\ state'.kind # "Dropped" =>
                FileReader.read_modules \subseteq compiler_environment'.file_reader.read_modules
          /\ \A module \in ImportAddresses :
                Enqueues(module) =>
                    /\ module \notin FileReader.read_modules
                    /\ module \in compiler_environment'.file_reader.read_modules]_vars
    /\ [](/\ state.kind # "Dropped" =>
                /\ FileReader.read_modules \subseteq ImportAddresses
                /\ Queued(FileReader.queue) \subseteq FileReader.read_modules
                /\ Len(files_read) + Len(FileReader.queue)
                       = Cardinality(FileReader.read_modules)
          /\ Len(files_read) <= Cardinality(ImportAddresses))
    /\ <>(state.kind = "Dropped")

\* A compilation after MaxImports import declarations, one of them a
\* repetition, has read the root file and one file for each of the two
\* distinct addresses, the file of A among them, and has ended with a
\* RuntimeObject.
C37_Witness ==
    /\ state.kind = "Dropped"
    /\ IsSome(runtime_object)
    /\ fragments_fed = MaxImports
    /\ Len(files_read) = MaxImports
    /\ \E n \in 1..Len(files_read) :
          files_read[n] = ModuleLocation([module_id |-> "A", path |-> None])

-----------------------------------------------------------------------------
(* Division by zero *)

InDivide == HasExecuted /\ Running = "divide"
Dividend == Bound(before.environment, "a").i
Divisor == Bound(before.environment, "b").i

\* C38: a / b and a % b with Integer operands and b = 0 end in a
\* RuntimeError, in the procedure that evaluates them and in its caller; the
\* interpreter is never aborted outside the error channel.
C38_DivisionByZeroIsARuntimeError ==
    (InDivide /\ Divisor = 0) => last_executed.r = "Err"
-----------------------------------------------------------------------------
(* The entrypoint and the export flag: RuntimeObject::execute (runtime.rs) *)

MaxEntryDeclarations == 4

\* @entrypoint proc run() { return 1; }
EntryProc == EntrypointDecoration \o RunHeader \o Tokens("{ return 1; }")

\* What stands in the source: the decorated procedure run, an undecorated
\* procedure run with an empty body, the export of run, the brace that ends
\* the module, and the header of a module Main.
EntryDeclarations == <<EntryProc, ProcOf("run"), ExportOne("run"), BlockEnd, ModuleHeader>>

\* The tokenizer hands over the header of the module, then the tokens of its
\* next declaration.
DeclareEntry ==
    /\ state.kind # "Dropped"
    /\ pending = <<>>
    /\ IF fragments_fed = 0 THEN pending' = ModuleHeader
       ELSE /\ fragments_fed <= MaxEntryDeclarations
            /\ \E f \in 1..Len(EntryDeclarations) : pending' = EntryDeclarations[f]
    /\ fragments_fed' = fragments_fed + 1
    /\ UNCHANGED <<state, compiler_environment, compile_error, runtime_object, last_inserted,
                   body_braces, overflow_checks, runtime_vars, other_vars>>

\* RuntimeObject::execute: the call of the entrypoint without arguments,
\* evaluated in the base environment.
RuntimeObjectExecute(runtime, heap) ==
    IF ~IsSome(runtime.entrypoint) THEN RtErr("No specified entrypoint!", heap)
    ELSE Eval(ProcedureCallExpression(runtime.entrypoint[1], <<>>),
              runtime.base_environement, heap)

\* The program is run once it is compiled.
Execute ==
    /\ IsSome(runtime_object)
    /\ steps = 0
    /\ LET Ended(result) ==
               /\ cells' = result.heap
               /\ last_executed' =
                     [index |-> 1, r |-> result.r,
                      message |-> IF result.r = "Ok" THEN "" ELSE result.v,
                      returned |-> IF result.r = "Ok" THEN result.v ELSE Null]
       IN  Ended(RuntimeObjectExecute(runtime_object[1], cells))
    /\ steps' = 1
    /\ UNCHANGED <<compile_vars, overflow_checks, call_environment, before, running,
                   other_vars>>

NextEntry == DeclareEntry \/ Read \/ Finalize \/ Execute

SpecEntry == InitCompile /\ [][NextEntry]_vars

\* The program was compiled with an entrypoint; the entrypoint, the base
\* environment, and the entry of the entrypoint in its module.
HasEntrypoint == IsSome(runtime_object) /\ IsSome(runtime_object[1].entrypoint)
Entrypoint == runtime_object[1].entrypoint[1]
ProgramEnvironment == runtime_object[1].base_environement
EntrypointDeclared ==
    /\ HasEntrypoint
    /\ Entrypoint.module_id \in DOMAIN ProgramEnvironment.loaded_modules
    /\ Entrypoint.identifier
          \in DOMAIN ProgramEnvironment.loaded_modules[Entrypoint.module_id].procedures
EntrypointMember ==
    ProgramEnvironment.loaded_modules[Entrypoint.module_id].procedures[Entrypoint.identifier]
WasExecuted == steps = 1

\* C39: the base environment is contained in no module, the one of the
\* entrypoint least of all; executing the program runs the entrypoint
\* procedure if its module exports it, and otherwise fails with the
\* not-exported RuntimeError before any instruction of it has run.
C39_EntrypointMustBeExported ==
    /\ HasEntrypoint =>
          /\ ProgramEnvironment.contained_module_id = ""
          /\ Entrypoint.module_id # ProgramEnvironment.contained_module_id
    /\ (EntrypointDeclared /\ WasExecuted) =>
          IF EntrypointMember.exported
          THEN /\ last_executed.r = "Ok"
               /\ last_executed.returned \in {Integer(1), Null}
          ELSE /\ last_executed.r = "Err"
               /\ last_executed.message = "Procedure is not exported by this module!"
               /\ last_executed.returned = Null
               /\ cells = <<>>
C39_Witness ==
    /\ EntrypointDeclared /\ WasExecuted
    /\ ~EntrypointMember.exported
    /\ last_executed.r = "Err"
C39_ExportedWitness ==
    /\ EntrypointDeclared /\ WasExecuted
    /\ EntrypointMember.exported
    /\ last_executed.returned = Integer(1)
-----------------------------------------------------------------------------
(* Calls with too few and too many arguments *)

InArity == IsSome(running) /\ Running = "arity"
Fewer(m, n) == IF m < n THEN m ELSE n
NotFound ==
    /\ last_executed.r = "Err"
    /\ last_executed.message = "Could not find the variable in this scope!"
\* The identifier is bound in no frame of the environment the instruction
\* executed last started from.
\* What was returned is the argument: the value itself, or for a Point the
\* Point moved out of the binding.
Returns(argument) ==
    IF argument.tag = "Struct"
    THEN /\ last_executed.returned.tag = "Struct"
         /\ cells[last_executed.returned.i].obj = before.heap[argument.i].obj
    ELSE last_executed.returned = argument
Unbound(identifier) ==
    FrameOf(before.environment.scope, identifier, Len(before.environment.scope)) = 0

\* C40: a call with fewer or more arguments than declared identifiers is
\* taken: its frame binds the first min(#identifiers, #arguments)
\* identifiers to the arguments in order and nothing else, the surplus
\* arguments are dropped, reading a bound parameter works as ever, and
\* reading a parameter left unbound is the variable-not-found RuntimeError,
\* in the procedure called first and in a procedure it calls.
C40_ArityIsNotChecked ==
    InArity =>
        LET identifiers == Unwrap(running).arguments_identifiers
            arguments == Unwrap(running).arguments
            bound == Fewer(Len(identifiers), Len(arguments))
            frame == call_environment.scope[1]
        IN  /\ steps = 0 =>
                /\ Len(call_environment.scope) = 1
                /\ DOMAIN frame = {identifiers[n] : n \in 1..bound}
                /\ \A n \in 1..bound : frame[identifiers[n]] = arguments[n]
                /\ \A n \in (bound + 1)..Len(arguments) :
                      arguments[n].tag = "Struct" => ~IsSome(cells[arguments[n].i].obj)
            /\ (HasExecuted /\ last_executed.index = 1) =>
                  IF Unbound("a") THEN NotFound
                  ELSE /\ last_executed.r = "Return"
                       /\ steps = 1 => Returns(arguments[1])
            /\ (HasExecuted /\ last_executed.index \in {2, 4}) =>
                  IF Unbound("b") THEN NotFound
                  ELSE /\ last_executed.r = IF last_executed.index = 2 THEN "Return" ELSE "Ok"
                       /\ steps = 1 /\ last_executed.index = 2 =>
                             Returns(arguments[2])
            /\ (HasExecuted /\ last_executed.index = 5) => NotFound
            /\ (HasExecuted /\ last_executed.index = 6) =>
                  IF Unbound("a") THEN NotFound
                  ELSE /\ last_executed.r = "Return"
                       /\ last_executed.returned = Integer(2)
                       /\ Bound(before.environment, "a").tag = "Struct" =>
                             ~IsSome(cells[Bound(before.environment, "a").i].obj)

\* The call with one argument has read b.
C40_Witness ==
    /\ InArity /\ HasExecuted
    /\ Len(Unwrap(running).arguments) = 1
    /\ last_executed.index = 2
    /\ NotFound
\* The call with three arguments, the last one a Point, has begun.
C40_SurplusWitness ==
    /\ InArity /\ steps = 0
    /\ Len(Unwrap(running).arguments) = 3
    /\ Unwrap(running).arguments[3].tag = "Struct"
    /\ DOMAIN call_environment.scope[1] = {"a", "b"}
\* Main::quotient was called with one argument, and with three.
C40_CalleeWitness ==
    /\ InArity /\ HasExecuted
    /\ \/ last_executed.index = 5 /\ NotFound
       \/ last_executed.index = 6 /\ last_executed.returned = Integer(2)
=============================================================================
